---- MODULE Spec2Model ----
(***************************************************************************)
(* HyperThink scaffolding controller (hyperthink_litellm): the notes       *)
(* memory (state.py), the query loop (hyperthink.py) and the tool loop,    *)
(* starter and reviewer steps (inference.py).                               *)
(*                                                                          *)
(* Text is modelled as a sequence of lines (what str.splitlines() gives),  *)
(* a tool result as a sequence of words; the Completer (litellm) and the   *)
(* tool executors are the environment and answer nondeterministically.     *)
(***************************************************************************)
EXTENDS Integers, Sequences, FiniteSets, TLC

\* ------------------------------------------------------------------ bounds
MaxStateSize == 2       \* max_state_size is drawn from 1..MaxStateSize
MaxIterations == 2      \* max_iterations is drawn from None, 1..MaxIterations
MaxToolIterations == 1  \* max_tool_iterations is drawn from 0..MaxToolIterations
MaxBatchLen == 3        \* add_notes batches of the notes specification: 0..MaxBatchLen notes
MaxNotesSize == 3       \* max_size of the notes specification: 1..MaxNotesSize

\* -------------------------------------------------------- program constants
MinRejectNotes == 2     \* inference.py: assert 2 <= len(result.added_notes) <= 8
MaxRejectNotes == 8
DefaultAnnealSteps == 10

\* Python's None, for an optional int (max_iterations) and for message content.
NoneInt == 0
NoneText == <<"<None>">>

\* No checkpoint file written, no snapshot taken, no state restored yet.
NoFile == [type |-> "absent"]
NoData == [max_size |-> NoneInt, notes |-> "none"]
NoObj == [max_size |-> NoneInt, notes |-> "none"]

\* hyperthink.py __init__: the attributes the constructor assigns to the controller.
InitAttributes ==
    {"model_a", "model_b", "max_state_size", "max_iterations", "temp_a_start", "temp_a_end",
     "temp_a_anneal_steps", "temp_b", "top_p_a", "top_p_b", "top_k_a", "top_k_b",
     "starter_prompt", "reviewer_prompt", "reasoning_effort_a", "reasoning_effort_b",
     "logging_enabled", "state", "iteration_count", "_total_prompt_tokens",
     "_total_completion_tokens", "_total_cost_usd"}

\* Nothing saved, snapshotted or restored: file is the checkpoint file, attrs
\* the controller's attributes, data the dict to_dict returned, obj the state
\* from_dict built, lists the list objects they hold ("self" is state.notes),
\* taken the state as it was when data was made, last the last operation.
NewCheckpointStore ==
    [file |-> NoFile, attrs |-> InitAttributes, data |-> NoData, obj |-> NoObj,
     lists |-> [data |-> <<>>, obj |-> <<>>],
     taken |-> [max_size |-> NoneInt, notes |-> <<>>], count |-> 0, last |-> "none"]

VARIABLES
    ckpt,             \* the checkpoint file and the notes snapshots taken with to_dict
    mcp,              \* one MCPClient, the thread that uses it and its worker threads
    cli,              \* the command-line session: its MCP clients and what it hands on
    cfg,              \* the constructor's arguments and the tool attributes of the controller
    state,            \* self.state: the AutoDecayingState [max_size, notes]
    iteration_count,  \* self.iteration_count
    usage,            \* self._total_prompt_tokens, _total_completion_tokens, _total_cost_usd
    completer,        \* the Completer in use: the usage reports its responses can carry
    pc,               \* where query() stands
    heap,             \* the Python lists: the caller's messages, the step's messages, the loop's copy
    local_ref,        \* the list object the name local_messages is bound to
    current_answer,   \* query(): current_answer
    review_step,      \* query(): review_step
    a_review_count,   \* query(): a_review_count
    frame,            \* the running _run_tool_loop invocation
    calls,            \* the Completer calls of the running invocation, in order
    outcome,          \* what query() returned or raised
    hist              \* observed: the outer steps and the Completer calls of the query

ctl_vars == <<cfg, state, iteration_count, usage, completer, pc, heap, local_ref, current_answer,
          review_step, a_review_count, frame, calls, outcome, hist>>

vars == <<ckpt, mcp, cli, ctl_vars>>

\* ============================================================ state.py
\* AutoDecayingState.__init__
AutoDecayingState(max_size) == [max_size |-> max_size, notes |-> <<>>]

\* Mutant of truncate_batch: the leading max_size entries are kept.
truncate_batch_leading(new_notes, max_size) ==
    IF Len(new_notes) > max_size THEN SubSeq(new_notes, 1, max_size) ELSE new_notes

\* add_notes: new_notes[-max_size:] when the batch alone exceeds the capacity
truncate_batch(new_notes, max_size) ==
    IF Len(new_notes) > max_size
    THEN SubSeq(new_notes, Len(new_notes) - max_size + 1, Len(new_notes))
    ELSE new_notes

\* Mutant of overflow: the room left is taken as 0 when the memory is over-full.
overflow_room_clamped(st, new_notes) ==
    Len(truncate_batch(new_notes, st.max_size))
    - (IF st.max_size > Len(st.notes) THEN st.max_size - Len(st.notes) ELSE 0)

\* add_notes: overflow = len(new_notes) - (max_size - len(notes)), after the truncation
overflow(st, new_notes) ==
    Len(truncate_batch(new_notes, st.max_size)) - (st.max_size - Len(st.notes))

\* Mutant of random_sample: positions drawn with repeats (as random.choices
\* draws them), so that fewer than k distinct ones can come out.
random_sample_repeats(n, k) ==
    {S \in SUBSET (1..n) : Cardinality(S) >= 1 /\ Cardinality(S) <= k}

\* random.sample(range(n), k): any k distinct positions (1-based here); it
\* raises ValueError when k > n, and then this set is empty.
random_sample(n, k) == {S \in SUBSET (1..n) : Cardinality(S) = k}

\* for i in sorted(evict_indices, reverse=True): del self.notes[i]
RECURSIVE del_indices(_, _)
del_indices(notes, evict_indices) ==
    IF evict_indices = {} THEN notes
    ELSE LET i == CHOOSE j \in evict_indices : \A k \in evict_indices : k <= j
         IN del_indices(SubSeq(notes, 1, i - 1) \o SubSeq(notes, i + 1, Len(notes)),
                        evict_indices \ {i})

\* The eviction choices add_notes can draw ({} alone when nothing overflows).
evict_choices(st, new_notes) ==
    IF overflow(st, new_notes) > 0
    THEN random_sample(Len(st.notes), overflow(st, new_notes))
    ELSE {{}}

\* Mutant of add_notes: the batch goes in front of the surviving notes.
add_notes_in_front(st, new_notes, evict_indices) ==
    [st EXCEPT !.notes = truncate_batch(new_notes, st.max_size)
                         \o del_indices(st.notes, evict_indices)]

\* Mutant of add_notes: the eviction is skipped.
add_notes_no_evict(st, new_notes, evict_indices) ==
    [st EXCEPT !.notes = st.notes \o truncate_batch(new_notes, st.max_size)]

\* add_notes with the drawn positions evict_indices: evict, then extend.
add_notes(st, new_notes, evict_indices) ==
    [st EXCEPT !.notes = del_indices(st.notes, evict_indices)
                         \o truncate_batch(new_notes, st.max_size)]

\* AutoDecayingState.format: "(none)", or the numbered list, one number token
\* and one note per entry.
RECURSIVE numbered(_, _)
numbered(notes, i) ==
    IF i > Len(notes) THEN <<>>
    ELSE <<ToString(i), notes[i]>> \o numbered(notes, i + 1)

format(st) == IF st.notes = <<>> THEN <<"(none)">> ELSE numbered(st.notes, 1)

\* ============================================================ text
\* A line that str.strip() removes entirely.
IsBlankLine(line) == line \in {"", " "}

\* str.strip() at line granularity: the blank lines at both ends go.
RECURSIVE lstrip(_)
lstrip(text) ==
    IF text # <<>> /\ IsBlankLine(Head(text)) THEN lstrip(Tail(text)) ELSE text

RECURSIVE rstrip(_)
rstrip(text) ==
    IF text # <<>> /\ IsBlankLine(text[Len(text)])
    THEN rstrip(SubSeq(text, 1, Len(text) - 1))
    ELSE text

strip(text) == rstrip(lstrip(text))

\* Mutant of HasText: `content is not None`.
HasText_unstripped(content) == content # NoneText

\* `content is not None and content.strip()`
HasText(content) == content # NoneText /\ strip(content) # <<>>

\* `content or ""`
OrEmpty(content) == IF content = NoneText THEN <<>> ELSE content

\* The three-backtick fence, written ''' here (a TLA+ string cannot hold a
\* backtick), and the lines that start with it.
FENCE == "'''"
FenceLines == {FENCE, "'''json"}

\* helpers.py: _extract_json
_extract_json(text) ==
    LET t == strip(text)
    IN IF t # <<>> /\ Head(t) \in FenceLines
       THEN IF t[Len(t)] = FENCE THEN SubSeq(t, 2, Len(t) - 1) ELSE Tail(t)
       ELSE t

\* str.replace(placeholder, by) on a template that holds the placeholder on
\* lines of its own.
RECURSIVE replace(_, _, _)
replace(text, placeholder, by) ==
    IF text = <<>> THEN <<>>
    ELSE (IF Head(text) = placeholder THEN by ELSE <<Head(text)>>)
         \o replace(Tail(text), placeholder, by)

\* prompts.py: the two system prompts, each placeholder on its own line.
STARTER_PROMPT == <<"You are the starter.">>
REVIEWER_PROMPT == <<"You are a reviewer.", "{notes}", "Answer under review:", "{review_input}">>

\* helpers.py: _format_reviewer_prompt
_format_reviewer_prompt(template, notes, review_input) ==
    replace(replace(template, "{notes}", notes), "{review_input}", review_input)

\* ============================================================ reviewer JSON
\* The JSON documents the Completer can reply with, and what json.loads
\* makes of each: a dict, given as a record of the keys present.
J_ACCEPT == "{\"review_result\": true, \"added_notes\": [], \"output\": \"final\"}"
J_ACCEPT_EMPTY == "{\"review_result\": true, \"added_notes\": [], \"output\": \"\"}"
J_ACCEPT_NOTES == "{\"review_result\": true, \"added_notes\": [\"n1\", \"n2\"], \"output\": \"final\"}"
J_REJECT == "{\"review_result\": false, \"added_notes\": [\"n1\", \"n2\"], \"output\": \"B\"}"
J_REJECT_EMPTY == "{\"review_result\": false, \"added_notes\": [\"n3\", \"\"], \"output\": \"\"}"
J_REJECT_ONE == "{\"review_result\": false, \"added_notes\": [\"n1\"], \"output\": \"B\"}"
J_REJECT_EIGHT == "{\"review_result\": false, \"added_notes\": [\"n1\", ..., \"n8\"], \"output\": \"B\"}"
J_REJECT_NINE == "{\"review_result\": false, \"added_notes\": [\"n1\", ..., \"n9\"], \"output\": \"B\"}"
J_NO_OUTPUT == "{\"review_result\": true}"

JsonDocs == {J_ACCEPT, J_ACCEPT_EMPTY, J_ACCEPT_NOTES, J_REJECT, J_REJECT_EMPTY,
             J_REJECT_ONE, J_REJECT_EIGHT, J_REJECT_NINE, J_NO_OUTPUT}

NineNotes == <<"n1", "n2", "n3", "n4", "n5", "n6", "n7", "n8", "n9">>

json_object(doc) ==
    CASE doc = J_ACCEPT -> [review_result |-> TRUE, added_notes |-> <<>>, output |-> <<"final">>]
      [] doc = J_ACCEPT_EMPTY -> [review_result |-> TRUE, added_notes |-> <<>>, output |-> <<>>]
      [] doc = J_ACCEPT_NOTES ->
            [review_result |-> TRUE, added_notes |-> <<"n1", "n2">>, output |-> <<"final">>]
      [] doc = J_REJECT ->
            [review_result |-> FALSE, added_notes |-> <<"n1", "n2">>, output |-> <<"B">>]
      [] doc = J_REJECT_EMPTY ->
            [review_result |-> FALSE, added_notes |-> <<"n3", "">>, output |-> <<>>]
      [] doc = J_REJECT_ONE ->
            [review_result |-> FALSE, added_notes |-> <<"n1">>, output |-> <<"B">>]
      [] doc = J_REJECT_EIGHT ->
            [review_result |-> FALSE, added_notes |-> SubSeq(NineNotes, 1, 8),
             output |-> <<"B">>]
      [] doc = J_REJECT_NINE ->
            [review_result |-> FALSE, added_notes |-> NineNotes, output |-> <<"B">>]
      [] OTHER -> [review_result |-> TRUE]

\* json.loads(text): the document when the text, blank lines aside, is one
\* JSON line; JSONDecodeError otherwise.
json_loads(text) ==
    LET t == strip(text)
    IN IF Len(t) = 1 /\ t[1] \in JsonDocs
       THEN [ok |-> TRUE, data |-> json_object(t[1])]
       ELSE [ok |-> FALSE, data |-> [review_result |-> TRUE]]

\* schemas.py: ReviewerOutput built from the JSON dict: review_result and output are required,
\* added_notes defaults to the empty list; nothing else is validated.
ReviewerOutput(data) ==
    IF {"review_result", "output"} \subseteq DOMAIN data
    THEN [ok |-> TRUE,
          review_result |-> data.review_result,
          added_notes |-> IF "added_notes" \in DOMAIN data THEN data.added_notes ELSE <<>>,
          output |-> data.output]
    ELSE [ok |-> FALSE, review_result |-> FALSE, added_notes |-> <<>>, output |-> <<>>]

\* Mutant of notes_count_ok: the number of notes is not looked at.
notes_count_any(result) == TRUE

\* _run_reviewer: `if not result.review_result: assert 2 <= len(added_notes) <= 8`
notes_count_ok(result) ==
    ~result.review_result =>
       (MinRejectNotes <= Len(result.added_notes) /\ Len(result.added_notes) <= MaxRejectNotes)

\* _run_reviewer, from `content = ...` to its return: the verdict, or the
\* exception raised; raw is the reply as far as the exception's message
\* quotes it ("Raw content:" is part of the ValueError's message only).
parse_verdict(content) ==
    IF ~HasText(content)
    THEN [error |-> "AssertionError", result |-> ReviewerOutput(<<>>), raw |-> <<>>]
    ELSE LET loaded == json_loads(_extract_json(content))
             result == IF loaded.ok THEN ReviewerOutput(loaded.data) ELSE ReviewerOutput(<<>>)
         IN IF ~loaded.ok \/ ~result.ok
            THEN [error |-> "ValueError", result |-> result, raw |-> content]
            ELSE IF ~notes_count_ok(result)
                 THEN [error |-> "AssertionError", result |-> result, raw |-> <<>>]
                 ELSE [error |-> "", result |-> result, raw |-> <<>>]

\* ============================================================ tools
\* tools/math.py: execute_math_tool, on the argument strings a model can send:
\* a result, an "Error: " text, the traceback text of the inner try, or (JSON
\* that is no object: args.get fails before the try) an exception.
ARGS_OK == "{\"operation\": \"evaluate\", \"expression\": \"2+2\"}"
ARGS_EMPTY == "{}"
ARGS_BAD_JSON == "{\"operation\": "
ARGS_NOT_DICT == "[1]"
ARGS_FAILING == "{\"operation\": \"evaluate\", \"expression\": \"1/\"}"

execute_math_tool(arguments) ==
    CASE arguments = ARGS_OK ->
            [raised |-> FALSE, value |-> <<"N(2+2)", "=", "4.00000000000000">>]
      [] arguments = ARGS_EMPTY ->
            [raised |-> FALSE, value |-> <<"Error:", "'operation'", "is", "required.">>]
      [] arguments = ARGS_BAD_JSON ->
            [raised |-> FALSE,
             value |-> <<"Error:", "Could", "not", "parse", "tool", "arguments", "as", "JSON:">>]
      [] arguments = ARGS_FAILING ->
            [raised |-> FALSE,
             value |-> <<"Error", "executing", "math_solver(evaluate):", "Traceback">>]
      [] OTHER ->
            [raised |-> TRUE, value |-> <<"'list'", "object", "has", "no", "attribute", "'get'">>]

\* self.tool_registry: the names with an executor.
tool_registry == IF cfg.tools = "some" THEN {"math_solver"} ELSE {}

\* inference.py: _dispatch_tool_call
_dispatch_tool_call(tool_call) ==
    LET name == tool_call.name
        raw_args == IF tool_call.arguments = "" THEN ARGS_EMPTY ELSE tool_call.arguments
    IN IF name \notin tool_registry
       THEN <<"Error:", "unknown", "tool", name>>
       ELSE LET r == execute_math_tool(raw_args)
            IN IF r.raised
               THEN <<"Error", "executing", "tool", name>> \o r.value
               ELSE r.value

\* The tool calls a completion can carry.
TC_OK == [id |-> "call_1", name |-> "math_solver", arguments |-> ARGS_OK]
TC_UNKNOWN == [id |-> "call_2", name |-> "web_search", arguments |-> ""]
TC_RAISES == [id |-> "call_3", name |-> "math_solver", arguments |-> ARGS_NOT_DICT]
TC_BAD_JSON == [id |-> "call_4", name |-> "math_solver", arguments |-> ARGS_BAD_JSON]

ToolCallLists == {<<TC_OK>>, <<TC_UNKNOWN, TC_RAISES, TC_BAD_JSON>>}

\* ============================================================ messages
Message(role, content) ==
    [role |-> role, content |-> content, tool_calls |-> <<>>, tool_call_id |-> ""]

\* Mutant of ToolMessage: the tool message carries the call's name, not its id.
ToolMessage_by_name(tool_call, result) ==
    [role |-> "tool", content |-> result, tool_calls |-> <<>>, tool_call_id |-> tool_call.name]

\* {"role": "tool", "tool_call_id": tc.id, "content": result}
ToolMessage(tool_call, result) ==
    [role |-> "tool", content |-> result, tool_calls |-> <<>>, tool_call_id |-> tool_call.id]

\* choice.message of a completion, as appended to the context
AssistantMessage(response) ==
    [role |-> "assistant", content |-> response.content,
     tool_calls |-> response.tool_calls, tool_call_id |-> ""]

\* The conversations a caller passes to query().
MessageLists ==
    {<<Message("user", <<"What is 2+2?">>)>>,
     <<Message("user", <<"Hi">>), Message("assistant", <<"Hello">>),
       Message("user", <<"What is 2+2?">>)>>}

\* ============================================================ Completer
\* litellm.completion: what a call can return, or raise. A reply that the
\* reviewer step parses is drawn from VerdictContents; a reply read as free
\* text (the starter's, or a reviewer's before response_format is applied) from
\* DraftContents.
DraftContents == {NoneText, <<>>, <<" ">>, <<"42">>, <<J_ACCEPT>>}

VerdictContents ==
    {NoneText, <<>>, <<" ">>, <<"42">>, <<"'''json", J_ACCEPT, FENCE>>, <<FENCE, J_REJECT>>}
    \cup {<<d>> : d \in JsonDocs \ {J_REJECT_EIGHT}}

\* The same with the longest rejection the parser lets through.
LongVerdictContents == VerdictContents \cup {<<J_REJECT_EIGHT>>}

Responses(contents) ==
    {[content |-> c, tool_calls |-> <<>>] : c \in contents}
    \cup {[content |-> NoneText, tool_calls |-> t] : t \in ToolCallLists}

CompleterErrors == {"BadRequestError", "APIConnectionError"}

\* What _accumulate_usage finds on a response: response.usage (absent: None)
\* with the token fields it exposes, and the cost litellm.completion_cost
\* estimates for the response, in micro-dollars (absent: the estimate raises).
NO_USAGE == [cost |-> 7]
FULL_USAGE == [usage |-> [prompt_tokens |-> 3, completion_tokens |-> 2], cost |-> 5]
NO_PROMPT_TOKENS == [usage |-> [completion_tokens |-> 2], cost |-> 5]
NO_COST == [usage |-> [prompt_tokens |-> 3]]

UsageReports == {NO_USAGE, FULL_USAGE, NO_PROMPT_TOKENS, NO_COST}

\* A Completer whose responses carry no usage, one that reports usage on some
\* responses (and can reply with the longest rejection), and one that reports
\* usage in every shape.
SilentCompleter == [reports |-> {NO_USAGE}, verdicts |-> VerdictContents]
MeteredCompleter == [reports |-> {NO_USAGE, FULL_USAGE}, verdicts |-> LongVerdictContents]
AnyCompleter == [reports |-> UsageReports, verdicts |-> VerdictContents]

\* HyperThink.__init__ / query(): the usage totals start at 0.
ZeroUsage == [prompt_tokens |-> 0, completion_tokens |-> 0, cost_usd |-> 0]

\* `getattr(usage, field, 0) or 0`
token_count(report_usage, field) ==
    IF field \in DOMAIN report_usage THEN report_usage[field] ELSE 0

\* Mutant of _accumulate_usage: the cost is added before `usage is None` is
\* looked at.
_accumulate_usage_cost_first(totals, report) ==
    LET costed == [totals EXCEPT !.cost_usd =
                      @ + (IF "cost" \in DOMAIN report THEN report.cost ELSE 0)]
    IN IF "usage" \notin DOMAIN report THEN costed
       ELSE [costed EXCEPT
                !.prompt_tokens = @ + token_count(report.usage, "prompt_tokens"),
                !.completion_tokens = @ + token_count(report.usage, "completion_tokens")]

\* inference.py: _accumulate_usage
_accumulate_usage(totals, report) ==
    IF "usage" \notin DOMAIN report THEN totals
    ELSE [prompt_tokens |-> totals.prompt_tokens + token_count(report.usage, "prompt_tokens"),
          completion_tokens |->
              totals.completion_tokens + token_count(report.usage, "completion_tokens"),
          cost_usd |-> totals.cost_usd + (IF "cost" \in DOMAIN report THEN report.cost ELSE 0)]

\* HyperThink.last_usage
last_usage ==
    [prompt_tokens |-> usage.prompt_tokens,
     completion_tokens |-> usage.completion_tokens,
     total_tokens |-> usage.prompt_tokens + usage.completion_tokens,
     cost_usd |-> usage.cost_usd]

NoResponse == [content |-> NoneText, tool_calls |-> <<>>]

\* ============================================================ floats
\* Python floats are IEEE 754 binary64: every arithmetic operation returns the
\* exact result rounded to 53 significant bits, ties to even.  A float here is
\* [m, e], the number m * 2^e, with m an odd natural number (or m = 0, e = 0
\* for 0.0), so that equal numbers are equal values.  A natural number of any
\* size is the sequence of its digits in base 2^14, lowest first, without
\* leading zeros.  Only non-negative numbers far from the exponent limits
\* occur (temperatures and fractions in [0, 1]).
FloatPrecision == 53
LimbBits == 14
LimbBase == 16384

RECURSIVE pow2(_)
pow2(k) == IF k = 0 THEN 1 ELSE 2 * pow2(k - 1)

RECURSIVE small_bitlen(_)
small_bitlen(n) == IF n = 0 THEN 0 ELSE 1 + small_bitlen(n \div 2)

limb(a, i) == IF i \in DOMAIN a THEN a[i] ELSE 0

RECURSIVE nat_trim(_)
nat_trim(a) ==
    IF a # <<>> /\ a[Len(a)] = 0 THEN nat_trim(SubSeq(a, 1, Len(a) - 1)) ELSE a

RECURSIVE nat_of(_)
nat_of(n) == IF n = 0 THEN <<>> ELSE <<n % LimbBase>> \o nat_of(n \div LimbBase)

nat_bitlen(a) ==
    IF a = <<>> THEN 0 ELSE (Len(a) - 1) * LimbBits + small_bitlen(a[Len(a)])

\* bit i of a, the lowest bit being bit 1
nat_bit(a, i) ==
    (limb(a, (i - 1) \div LimbBits + 1) \div pow2((i - 1) % LimbBits)) % 2

\* a * 2^k
nat_shl(a, k) ==
    LET q == k \div LimbBits
        s == k % LimbBits
    IN nat_trim([i \in 1..(Len(a) + q + 1) |->
                   ((limb(a, i - q) * pow2(s)) % LimbBase)
                     + (limb(a, i - q - 1) \div pow2(LimbBits - s))])

\* floor(a / 2^k)
nat_shr(a, k) ==
    LET q == k \div LimbBits
        s == k % LimbBits
    IN nat_trim([i \in 1..(IF Len(a) > q THEN Len(a) - q ELSE 0) |->
                   (limb(a, i + q) \div pow2(s))
                     + (limb(a, i + q + 1) % pow2(s)) * pow2(LimbBits - s)])

RECURSIVE nat_carry(_, _, _, _)
nat_carry(a, b, i, carry) ==
    IF i > Len(a) /\ i > Len(b)
    THEN nat_of(carry)
    ELSE LET s == limb(a, i) + limb(b, i) + carry
         IN <<s % LimbBase>> \o nat_carry(a, b, i + 1, s \div LimbBase)

nat_add(a, b) == nat_carry(a, b, 1, 0)

RECURSIVE nat_borrow(_, _, _, _)
nat_borrow(a, b, i, borrow) ==
    IF i > Len(a)
    THEN <<>>
    ELSE LET d == limb(a, i) - limb(b, i) - borrow
         IN IF d < 0
            THEN <<d + LimbBase>> \o nat_borrow(a, b, i + 1, 1)
            ELSE <<d>> \o nat_borrow(a, b, i + 1, 0)

\* a - b for a >= b
nat_sub(a, b) == nat_trim(nat_borrow(a, b, 1, 0))

nat_leq(a, b) ==
    \/ a = b
    \/ Len(a) < Len(b)
    \/ /\ Len(a) = Len(b)
       /\ \E i \in DOMAIN a :
            /\ a[i] < b[i]
            /\ \A j \in (i + 1)..Len(a) : a[j] = b[j]

\* the sum of the products a[i] * b[j] that fall on digit k; a and b are
\* significands (at most four digits each)
RECURSIVE nat_column(_, _, _, _)
nat_column(a, b, k, i) ==
    IF i > Len(a) THEN 0
    ELSE a[i] * limb(b, k - i + 1) + nat_column(a, b, k, i + 1)

RECURSIVE nat_columns(_, _, _, _)
nat_columns(a, b, k, carry) ==
    IF k > Len(a) + Len(b)
    THEN nat_of(carry)
    ELSE LET s == nat_column(a, b, k, 1) + carry
         IN <<s % LimbBase>> \o nat_columns(a, b, k + 1, s \div LimbBase)

nat_mul(a, b) == nat_trim(nat_columns(a, b, 1, 0))

\* floor(a / d) and a mod d for a small divisor d, by long division from the
\* highest digit down
RECURSIVE nat_divmod(_, _, _, _, _)
nat_divmod(a, d, i, q, r) ==
    IF i = 0 THEN [q |-> nat_trim(q), r |-> r]
    ELSE LET r2 == r * LimbBase + a[i]
         IN nat_divmod(a, d, i - 1, <<r2 \div d>> \o q, r2 % d)

\* the value m * 2^e in its one representation
RECURSIVE float_canon(_, _)
float_canon(m, e) ==
    IF m = <<>> THEN [m |-> <<>>, e |-> 0]
    ELSE IF m[1] = 0 THEN float_canon(Tail(m), e + LimbBits)
    ELSE IF m[1] % 2 = 0 THEN float_canon(nat_shr(m, 1), e + 1)
    ELSE [m |-> m, e |-> e]

\* round m * 2^e to FloatPrecision significant bits, ties to even
float_round(m, e) ==
    LET k == nat_bitlen(m) - FloatPrecision
    IN IF k <= 0 THEN float_canon(m, e)
       ELSE LET kept == nat_shr(m, k)
                sticky == nat_shl(nat_shr(m, k - 1), k - 1) # m
                up == nat_bit(m, k) = 1 /\ (sticky \/ nat_bit(kept, 1) = 1)
            IN float_canon(IF up THEN nat_add(kept, <<1>>) ELSE kept, e + k)

float_min_e(x, y) == IF x.e <= y.e THEN x.e ELSE y.e
float_aligned(x, e) == nat_shl(x.m, x.e - e)

\* x + y
float_add(x, y) ==
    LET e == float_min_e(x, y)
    IN float_round(nat_add(float_aligned(x, e), float_aligned(y, e)), e)

\* x <= y
float_leq(x, y) ==
    LET e == float_min_e(x, y)
    IN nat_leq(float_aligned(x, e), float_aligned(y, e))

\* x - y for x >= y
float_sub(x, y) ==
    LET e == float_min_e(x, y)
    IN float_round(nat_sub(float_aligned(x, e), float_aligned(y, e)), e)

\* x * y
float_mul(x, y) == float_round(nat_mul(x.m, y.m), x.e + y.e)

\* int / int (true division) for 0 <= t and 0 < T: the quotient is taken to
\* DivBits binary places, and one more bit records a non-zero remainder
DivBits == 70
float_truediv(t, T) ==
    LET a == nat_shl(nat_of(t), DivBits)
        d == nat_divmod(a, T, Len(a), <<>>, 0)
    IN float_round(nat_add(nat_shl(d.q, 1), IF d.r = 0 THEN <<>> ELSE <<1>>), 0 - DivBits - 1)

\* float.fromhex("0x<d1>.<d2...d14>p<p>"): the hexadecimal digits of the
\* significand, highest first, and the binary exponent
RECURSIVE hex_nat(_)
hex_nat(digits) ==
    IF digits = <<>> THEN <<>>
    ELSE nat_add(nat_shl(hex_nat(SubSeq(digits, 1, Len(digits) - 1)), 4),
                 nat_of(digits[Len(digits)]))

float_fromhex(digits, p) == float_canon(hex_nat(digits), p - 4 * (Len(digits) - 1))

F_0_0 == float_fromhex(<<0>>, 0)
F_0_2 == float_fromhex(<<1, 9, 9, 9, 9, 9, 9, 9, 9, 9, 9, 9, 9, 10>>, -3)
F_0_3 == float_fromhex(<<1, 3, 3, 3, 3, 3, 3, 3, 3, 3, 3, 3, 3, 3>>, -2)
F_0_9 == float_fromhex(<<1, 12, 12, 12, 12, 12, 12, 12, 12, 12, 12, 12, 12, 13>>, -1)
F_1_0 == float_fromhex(<<1>>, 0)
F_1_6 == float_fromhex(<<1, 9, 9, 9, 9, 9, 9, 9, 9, 9, 9, 9, 9, 10>>, 0)

\* inference.py: _anneal_temp_a(step) of a controller with the attributes c;
\* t / T is the true division of two ints.
_anneal_temp_a(c, step) ==
    LET T == IF c.temp_a_anneal_steps # NoneInt THEN c.temp_a_anneal_steps
             ELSE DefaultAnnealSteps
        t == IF step <= T THEN step ELSE T
    IN float_add(c.temp_a_end,
                 float_mul(float_sub(c.temp_a_start, c.temp_a_end),
                           float_sub(F_1_0, float_truediv(t, T))))

\* The temperature settings and the steps followed, and the values of
\* _anneal_temp_a over them, each computed once.
MaxAnnealSteps == 3

TemperatureSeq == <<F_0_0, F_0_2, F_0_3, F_0_9, F_1_6>>

Temperatures == {TemperatureSeq[i] : i \in DOMAIN TemperatureSeq}

\* temp_a_anneal_steps is None (NoneInt) or at most this.
MaxAnnealT == MaxAnnealSteps + 2

\* The model-A reviews of one query are fewer than this.
AnnealStepBound == (MaxIterations + MaxAnnealSteps) \div 2 + 1

\* <<_anneal_temp_a(0), ..., _anneal_temp_a(step)>> for the attributes c
RECURSIVE AnnealRow(_, _)
AnnealRow(c, step) ==
    IF step < 0 THEN <<>> ELSE Append(AnnealRow(c, step - 1), _anneal_temp_a(c, step))

\* the rows for temp_a_anneal_steps = NoneInt, 1, ..., T
RECURSIVE AnnealByT(_, _, _)
AnnealByT(start, end, T) ==
    IF T < 0 THEN <<>>
    ELSE Append(AnnealByT(start, end, T - 1),
                AnnealRow([temp_a_start |-> start, temp_a_end |-> end,
                           temp_a_anneal_steps |-> T], AnnealStepBound))

\* for the end temperatures TemperatureSeq[1..j] that are not above start
RECURSIVE AnnealByEnd(_, _)
AnnealByEnd(start, j) ==
    IF j = 0 THEN <<>>
    ELSE Append(AnnealByEnd(start, j - 1),
                IF float_leq(TemperatureSeq[j], start)
                THEN AnnealByT(start, TemperatureSeq[j], MaxAnnealT) ELSE <<>>)

\* for the start temperatures TemperatureSeq[1..i]
RECURSIVE AnnealByStart(_)
AnnealByStart(i) ==
    IF i = 0 THEN <<>>
    ELSE Append(AnnealByStart(i - 1), AnnealByEnd(TemperatureSeq[i], Len(TemperatureSeq)))

AnnealValues == AnnealByStart(Len(TemperatureSeq))

TemperatureIndex(x) == CHOOSE i \in DOMAIN TemperatureSeq : TemperatureSeq[i] = x

\* self._anneal_temp_a(step) of the controller with the attributes c
anneal_temp_a(c, step) ==
    AnnealValues[TemperatureIndex(c.temp_a_start)][TemperatureIndex(c.temp_a_end)]
                [c.temp_a_anneal_steps + 1][step + 1]

\* ============================================================ CLI
\* hyperthink_cli/main.py: the MCP clients the session has connected, in the
\* order of their `/mcp` commands, each with the tool names its server listed,
\* and the tools and executors an inference turn hands to the controller.  A
\* tool schema is [name, client]: the name, and the client it came from.
MaxClients == 3      \* `/mcp <command>` connections followed
MaxListed == 2       \* tools one server lists

ToolNames == {"read_file", "search"}

\* The listings: up to MaxListed tools with different names.
ToolLists ==
    {l \in UNION {[1..n -> ToolNames] : n \in 0..MaxListed} :
        \A i, j \in DOMAIN l : l[i] = l[j] => i = j}

NewCLI == [mcp_clients |-> <<>>, merged |-> FALSE, mcp_tools |-> <<>>, mcp_executors |-> <<>>]

\* `/mcp <command>`: client.connect() succeeded and the client is appended.
cli_connect(listing) ==
    /\ Len(cli.mcp_clients) < MaxClients
    /\ cli' = [NewCLI EXCEPT !.mcp_clients = Append(cli.mcp_clients, listing)]
    /\ UNCHANGED <<ckpt, mcp, ctl_vars>>

\* `/mcp disconnect`: every client is closed and the list is cleared.
cli_disconnect ==
    /\ cli.mcp_clients # <<>>
    /\ cli' = NewCLI
    /\ UNCHANGED <<ckpt, mcp, ctl_vars>>

\* c.get_tools() of client c: a copy of its schemas.
get_tools(clients, c) == [i \in DOMAIN clients[c] |-> [name |-> clients[c][i], client |-> c]]

\* `[t for c in mcp_clients for t in c.get_tools()]`, over the first c clients
RECURSIVE merge_tools(_, _)
merge_tools(clients, c) ==
    IF c = 0 THEN <<>> ELSE merge_tools(clients, c - 1) \o get_tools(clients, c)

\* `{k: v for c in mcp_clients for k, v in c.get_executors().items()}`, over
\* the first c clients: a dict from the name to the client whose executor it is
RECURSIVE merge_executors(_, _)
merge_executors(clients, c) ==
    IF c = 0 THEN <<>>
    ELSE LET earlier == merge_executors(clients, c - 1)
             own == {clients[c][i] : i \in DOMAIN clients[c]}
         IN [k \in DOMAIN earlier \cup own |-> IF k \in own THEN c ELSE earlier[k]]

\* An inference turn: the tools and executors of all clients are put together.
cli_inference ==
    /\ ~cli.merged
    /\ cli' = [cli EXCEPT !.merged = TRUE,
                          !.mcp_tools = merge_tools(cli.mcp_clients, Len(cli.mcp_clients)),
                          !.mcp_executors =
                              merge_executors(cli.mcp_clients, Len(cli.mcp_clients))]
    /\ UNCHANGED <<ckpt, mcp, ctl_vars>>

\* ============================================================ MCP client
\* tools/mcp.py: one MCPClient, the application thread that calls connect(),
\* close(), get_executors() and the executors one after the other, and the
\* worker threads connect() starts.  A worker is [pc, started, error, done,
\* loop, failed]: where its _target/_main stands, the threading.Event and the
\* error_box of the connect() that started it, its asyncio.Event, the state
\* of its event loop, and where its session came to an end.  The tool server
\* is the environment: spawn, handshake, listing and tool calls succeed or
\* fail, and the waits with a timeout run out while the worker is held up by
\* the server.
MaxWorkers == 1      \* worker threads alive at a time

NoneRef == 0

NOT_CONNECTED == "Error: MCP session is not connected."
BAD_ARGUMENTS == "Error: Could not parse tool arguments as JSON: ..."
TIMED_OUT == "Error: Tool call '...' timed out after 60 seconds."
CALL_FAILED == "Error calling tool '...': ..."
TOOL_TEXT == "text of the tool result"

\* The tools the server lists, and the argument strings an executor is called
\* with: empty, a JSON object, not JSON.
ServerTools == <<"read_file">>
ToolArguments == {"", "{}", "{"}

\* A worker thread not started: done is the state of the asyncio.Event it
\* creates, bound the worker whose loop that event got bound to, event the
\* worker whose event it waits on.
NoWorker ==
    [pc |-> "none", started |-> FALSE, error |-> "", done |-> FALSE, loop |-> "none",
     failed |-> "", bound |-> NoneRef, event |-> NoneRef]

Idle == [pc |-> "idle"]

NoResult == [op |-> "none", kind |-> "none", value |-> ""]

\* MCPClient.__init__, an application that holds no executors yet, and
\* nothing observed.
NewMCPClient ==
    [_tools |-> <<>>, _session |-> NoneRef, _loop |-> NoneRef, _done |-> NoneRef,
     _thread |-> NoneRef,
     workers |-> [w \in 1..MaxWorkers |-> NoWorker],
     app |-> Idle,
     executors |-> {},
     last |-> NoResult,
     closed |-> FALSE, after_close |-> FALSE]

\* The points where _main waits for the tool server: the subprocess spawn, the
\* two requests of the handshake, and the teardown of the session and of the
\* subprocess.
BlockedPcs == {"spawn", "initialize", "list_tools", "closing"}

\* The points where the ClientSession of a worker is open.
OpenPcs == {"initialize", "list_tools", "serving"}

Spawned == {w \in DOMAIN mcp.workers : mcp.workers[w].pc # "none"}

\* The lifecycle states of the client: a worker on its way to the started
\* signal; a worker that serves tool calls and has not been told to stop.
Starting ==
    \E w \in Spawned :
        mcp.workers[w].pc \in {"loop", "spawn", "initialize", "list_tools"}
Running ==
    \E w \in Spawned :
        mcp.workers[w].pc = "serving" /\ ~mcp.workers[mcp.workers[w].event].done

\* The places for a new thread: never used, or left by a thread that is over
\* and whose event no thread waits on.
Free ==
    {w \in DOMAIN mcp.workers :
        /\ mcp.workers[w].pc \in {"none", "exited"}
        /\ \A other \in DOMAIN mcp.workers :
              mcp.workers[other].pc \in {"serving", "closing"} => mcp.workers[other].event # w}

\* connect(), up to started.wait: a new thread, kept in self._thread.
connect ==
    /\ mcp.app = Idle
    /\ Free # {}
    /\ LET w == CHOOSE free \in Free : \A other \in Free : free <= other
       IN mcp' = [mcp EXCEPT !._thread = w,
                             !.workers[w] = [NoWorker EXCEPT !.pc = "loop"],
                             !.app = [pc |-> "connect", worker |-> w],
                             !.after_close = FALSE]
    /\ UNCHANGED <<ckpt, cli, ctl_vars>>

\* connect(): started.wait(timeout=30) returns, the event set or the 30
\* seconds over, and error_box[0] is raised if there is one.
connect_returns ==
    /\ mcp.app.pc = "connect"
    /\ LET worker == mcp.workers[mcp.app.worker]
       IN /\ worker.started \/ worker.pc \in BlockedPcs
          /\ mcp' = [mcp EXCEPT !.app = Idle,
                                !.last = [op |-> "connect",
                                          kind |-> IF worker.error # "" THEN "raised"
                                                   ELSE "returned",
                                          value |-> worker.error,
                                          worker |-> mcp.app.worker,
                                          timed_out |-> ~worker.started]]
    /\ UNCHANGED <<ckpt, cli, ctl_vars>>

\* Mutant of loop_after_run: the worker closes its loop when it is done with it.
loop_after_run_closed == "closed"

\* _target: the loop after run_until_complete returned: stopped, never closed.
loop_after_run == "stopped"

\* loop.call_soon_threadsafe(done.set): RuntimeError on a closed loop; on a
\* running loop the event is set; on a stopped one the callback never runs.
call_soon_threadsafe(workers, loop, done) ==
    IF workers[loop].loop = "closed" THEN [error |-> "RuntimeError", workers |-> workers]
    ELSE IF workers[loop].loop = "running"
         THEN [error |-> "", workers |-> [workers EXCEPT ![done].done = TRUE]]
         ELSE [error |-> "", workers |-> workers]

\* close(), up to thread.join.
close ==
    /\ mcp.app = Idle
    /\ LET signal == IF mcp._loop # NoneRef /\ mcp._done # NoneRef
                     THEN call_soon_threadsafe(mcp.workers, mcp._loop, mcp._done)
                     ELSE [error |-> "", workers |-> mcp.workers]
           was_running == Running
       IN IF signal.error # ""
          THEN mcp' = [mcp EXCEPT !.last = [op |-> "close", kind |-> "raised",
                                            value |-> signal.error, before |-> mcp.last.op],
                                  !.closed = TRUE]
          ELSE IF mcp._thread # NoneRef
               THEN mcp' = [mcp EXCEPT !.workers = signal.workers,
                                       !.app = [pc |-> "close", was_running |-> was_running]]
               ELSE mcp' = [mcp EXCEPT !.last = [op |-> "close", kind |-> "returned",
                                                 value |-> "", before |-> mcp.last.op],
                                       !.closed = TRUE]
    /\ UNCHANGED <<ckpt, cli, ctl_vars>>

\* close(): self._thread.join(timeout=10) returns, the thread over or the 10
\* seconds over.
close_returns ==
    /\ mcp.app.pc = "close"
    /\ LET worker == mcp.workers[mcp._thread]
       IN /\ worker.pc = "exited" \/ worker.pc \in BlockedPcs
          /\ mcp' = [mcp EXCEPT !.app = Idle,
                                !.last = [op |-> "close", kind |-> "returned", value |-> "",
                                          before |-> mcp.last.op,
                                          joined |-> worker.pc = "exited"],
                                !.closed = TRUE,
                                !.after_close = @ \/ mcp.app.was_running]
    /\ UNCHANGED <<ckpt, cli, ctl_vars>>

RECURSIVE names_of(_)
names_of(tools) == IF tools = <<>> THEN {} ELSE {Head(tools)} \cup names_of(Tail(tools))

\* get_executors(): one executor for every name in self._tools.
get_executors ==
    /\ mcp.app = Idle
    /\ mcp.executors # names_of(mcp._tools)
    /\ mcp' = [mcp EXCEPT !.executors = names_of(mcp._tools)]
    /\ UNCHANGED <<ckpt, cli, ctl_vars>>

\* json.loads(arguments) if arguments else {}
arguments_parse(arguments) == arguments \in {"", "{}"}

\* An executor is called: _call_tool_sync up to run_coroutine_threadsafe.
_call_tool_sync(name, arguments) ==
    /\ mcp.app = Idle
    /\ name \in mcp.executors
    /\ IF mcp._session = NoneRef \/ mcp._loop = NoneRef
       THEN mcp' = [mcp EXCEPT !.last = [op |-> "call", kind |-> "returned",
                                         value |-> NOT_CONNECTED]]
       ELSE IF ~arguments_parse(arguments)
            THEN mcp' = [mcp EXCEPT !.last = [op |-> "call", kind |-> "returned",
                                              value |-> BAD_ARGUMENTS]]
            ELSE mcp' = [mcp EXCEPT !.app = [pc |-> "dispatch"]]
    /\ UNCHANGED <<ckpt, cli, ctl_vars>>

\* _call_tool_sync: `self._session.call_tool(name, parsed)` is evaluated
\* (AttributeError when self._session is None by now) and the coroutine is
\* handed to self._loop.
dispatch_call ==
    /\ mcp.app.pc = "dispatch"
    /\ IF mcp._session = NoneRef
       THEN mcp' = [mcp EXCEPT !.app = Idle,
                               !.last = [op |-> "call", kind |-> "raised",
                                         value |-> "AttributeError"]]
       ELSE mcp' = [mcp EXCEPT !.app = [pc |-> "result", session |-> mcp._session,
                                        loop |-> mcp._loop, future |-> "pending"]]
    /\ UNCHANGED <<ckpt, cli, ctl_vars>>

\* The worker loop runs the coroutine: on an open session the request goes
\* to the tool server, which answers with a result (an error result is one)
\* or not properly (protocol error); a session that is closed raises.
call_tool ==
    /\ mcp.app.pc = "result"
    /\ mcp.app.future = "pending"
    /\ mcp.workers[mcp.app.loop].loop = "running"
    /\ IF mcp.workers[mcp.app.session].pc \in OpenPcs
       THEN \E answer \in {"result", "exception"} :
              mcp' = [mcp EXCEPT !.app.future = answer]
       ELSE mcp' = [mcp EXCEPT !.app.future = "closed"]
    /\ UNCHANGED <<ckpt, cli, ctl_vars>>

\* _call_tool_sync: future.result(timeout=60) and what is made of it; the 60
\* seconds run out when the loop no longer runs or is held up by the server.
call_returns ==
    /\ mcp.app.pc = "result"
    /\ \/ mcp.app.future # "pending"
       \/ mcp.workers[mcp.app.loop].loop # "running"
       \/ mcp.workers[mcp.app.loop].pc \in BlockedPcs
    /\ mcp' = [mcp EXCEPT !.app = Idle,
                          !.last = [op |-> "call", kind |-> "returned",
                                    value |-> CASE mcp.app.future = "pending" -> TIMED_OUT
                                                [] mcp.app.future = "exception" -> CALL_FAILED
                                                [] mcp.app.future = "closed" -> CALL_FAILED
                                                [] OTHER -> TOOL_TEXT]]
    /\ UNCHANGED <<ckpt, cli, ctl_vars>>

\* _target: the new loop and the new asyncio.Event are stored in self._loop
\* and self._done, and the loop starts running _main.
target(w) ==
    /\ mcp.workers[w].pc = "loop"
    /\ mcp' = [mcp EXCEPT !._loop = w, !._done = w, !.workers[w].pc = "spawn",
                          !.workers[w].loop = "running"]
    /\ UNCHANGED <<ckpt, cli, ctl_vars>>

\* _main: `async with stdio_client(params)`: the subprocess starts or not;
\* `async with ClientSession(...) as session: self._session = session`
main_session(w) ==
    /\ mcp.workers[w].pc = "spawn"
    /\ \/ mcp' = [mcp EXCEPT !._session = w, !.workers[w].pc = "initialize"]
       \/ mcp' = [mcp EXCEPT !.workers[w].pc = "except", !.workers[w].failed = "spawn"]
    /\ UNCHANGED <<ckpt, cli, ctl_vars>>

\* _main: `await session.initialize()`
main_initialize(w) ==
    /\ mcp.workers[w].pc = "initialize"
    /\ \/ mcp' = [mcp EXCEPT !.workers[w].pc = "list_tools"]
       \/ mcp' = [mcp EXCEPT !.workers[w].pc = "except", !.workers[w].failed = "initialize"]
    /\ UNCHANGED <<ckpt, cli, ctl_vars>>

\* `self._done.wait()` on the loop of worker w: the event is the one
\* self._done names now. An asyncio.Event belongs to one loop (the one of its
\* first wait, or before Python 3.10 the one of the thread that made it):
\* waiting on it from another loop raises RuntimeError.
can_wait(w) == mcp.workers[mcp._done].bound \in {NoneRef, w}
wait_may_raise(w) == mcp._done # w \/ mcp.workers[mcp._done].bound \notin {NoneRef, w}

\* _main: `tools_result = await session.list_tools()`, self._tools,
\* started.set() and the call of self._done.wait()
main_list_tools(w) ==
    /\ mcp.workers[w].pc = "list_tools"
    /\ \/ /\ can_wait(w)
          /\ mcp' = [mcp EXCEPT !._tools = ServerTools, !.workers[w].pc = "serving",
                                !.workers[w].started = TRUE,
                                !.workers[w].event = mcp._done,
                                !.workers[mcp._done].bound = w]
       \/ /\ wait_may_raise(w)
          /\ mcp' = [mcp EXCEPT !._tools = ServerTools, !.workers[w].pc = "except",
                                !.workers[w].started = TRUE, !.workers[w].failed = "wait"]
       \/ mcp' = [mcp EXCEPT !.workers[w].pc = "except", !.workers[w].failed = "list_tools"]
    /\ UNCHANGED <<ckpt, cli, ctl_vars>>

\* _main: `await self._done.wait()` returns once the event is set, and the
\* two `async with` blocks are left.
main_wait(w) ==
    /\ mcp.workers[w].pc = "serving"
    /\ mcp.workers[mcp.workers[w].event].done
    /\ mcp' = [mcp EXCEPT !.workers[w].pc = "closing"]
    /\ UNCHANGED <<ckpt, cli, ctl_vars>>

\* _main: the session and the subprocess are torn down.
main_closing(w) ==
    /\ mcp.workers[w].pc = "closing"
    /\ mcp' = [mcp EXCEPT !.workers[w].pc = "finally"]
    /\ UNCHANGED <<ckpt, cli, ctl_vars>>

\* _main: `except Exception as exc: error_box[0] = exc; started.set()`
main_except(w) ==
    /\ mcp.workers[w].pc = "except"
    /\ mcp' = [mcp EXCEPT !.workers[w].pc = "finally", !.workers[w].error = "exc",
                          !.workers[w].started = TRUE]
    /\ UNCHANGED <<ckpt, cli, ctl_vars>>

\* _main: `finally: self._session = None`; run_until_complete returns and
\* the thread is over.
main_finally(w) ==
    /\ mcp.workers[w].pc = "finally"
    /\ mcp' = [mcp EXCEPT !._session = NoneRef, !.workers[w].pc = "exited",
                          !.workers[w].loop = loop_after_run]
    /\ UNCHANGED <<ckpt, cli, ctl_vars>>

\* ============================================================ controller
\* HyperThink.__init__: the configurations (max_iterations None is NoneInt).
\* __init__ assigns none of self.tools, self.tool_registry and
\* self.max_tool_iterations, which inference.py only declares: "unset" is the
\* controller as constructed, "none" and "some" one whose owner assigned them.
Configs ==
    {c \in [max_state_size : 1..MaxStateSize,
            max_iterations : {NoneInt} \cup (1..MaxIterations),
            tools : {"unset", "none", "some"},
            max_tool_iterations : 0..MaxToolIterations] :
        c.tools = "unset" => c.max_tool_iterations = 0}

\* The outer steps a query without max_iterations is followed for.
StepBound == MaxIterations + 1

NoFrame ==
    [step |-> "none", model |-> "none", temperature |-> F_0_0, response_format |-> FALSE,
     iteration |-> 0, pending |-> <<>>, response |-> NoResponse]

NoOutcome == [kind |-> "none", via |-> "", value |-> <<>>, error |-> ""]
Returned(via, value) == [kind |-> "returned", via |-> via, value |-> value, error |-> ""]
Raised(error) == [kind |-> "raised", via |-> "", value |-> <<>>, error |-> error]

NoBefore == [used |-> FALSE, loaded |-> FALSE]

NoHist ==
    [messages |-> <<>>, steps |-> <<>>, queries |-> 0, before |-> NoBefore, completions |-> 0,
     reports |-> [report \in UsageReports |-> 0], retries |-> 0, raised |-> <<>>,
     tool_rounds |-> 0, prev_notes |-> <<>>, batch |-> <<>>, evicted |-> {}]

\* A keyword argument of __init__, or its default when the caller leaves it out.
argument(config, name, default) == IF name \in DOMAIN config THEN config[name] ELSE default

\* HyperThink.__init__: the attributes assigned from the arguments config;
\* self.temp_a_anneal_steps falls back to max_iterations (None when unset).
attributes(config) ==
    [max_state_size |-> config.max_state_size,
     max_iterations |-> config.max_iterations,
     tools |-> config.tools,
     max_tool_iterations |-> config.max_tool_iterations,
     temp_a_start |-> argument(config, "temp_a_start", F_1_6),
     temp_a_end |-> argument(config, "temp_a_end", F_0_2),
     temp_a_anneal_steps |->
        IF argument(config, "temp_a_anneal_steps", NoneInt) # NoneInt
        THEN config.temp_a_anneal_steps ELSE config.max_iterations,
     temp_b |-> argument(config, "temp_b", F_0_0)]

\* HyperThink.__init__ with the arguments config.
Construct(config) ==
    /\ cfg = attributes(config)
    /\ state = AutoDecayingState(config.max_state_size)
    /\ iteration_count = 0
    /\ usage = ZeroUsage
    /\ pc = "idle"
    /\ heap = [user |-> <<>>, outer |-> <<>>, local |-> <<>>]
    /\ local_ref = "local"
    /\ current_answer = <<>>
    /\ review_step = 0
    /\ a_review_count = 0
    /\ frame = NoFrame
    /\ calls = <<>>
    /\ outcome = NoOutcome
    /\ hist = NoHist

Init ==
    /\ \E config \in Configs : Construct(config)
    /\ completer = SilentCompleter
    /\ ckpt = NewCheckpointStore
    /\ mcp = NewMCPClient
    /\ cli = NewCLI

\* Mutant of list_copy: `local_messages = messages`, the same list object.
list_copy_alias(messages_ref) == messages_ref

\* _run_tool_loop: `local_messages = list(messages)` binds the name to a new
\* list object, whatever list object `messages` is.
list_copy(messages_ref) == "local"

\* _run_tool_loop: `active_tools = self.tools if self.tools else None`
active_tools == cfg.tools = "some"

\* Mutant of is_last_allowed: `>` for `>=`.
is_last_allowed_late == frame.iteration > cfg.max_tool_iterations

\* Mutant of current_tools: the tools are offered on every iteration.
current_tools_always == active_tools

\* Mutant of current_tools: the tools are offered on the last allowed iteration only.
current_tools_on_last == IF is_last_allowed_late \/ frame.iteration = cfg.max_tool_iterations
                         THEN active_tools ELSE FALSE

\* Mutant of current_fmt: response_format is passed on every call.
current_fmt_always == frame.response_format

\* _run_tool_loop: is_last_allowed, current_tools (are tools offered) and
\* current_fmt (is response_format passed) of the call of this iteration.
is_last_allowed == frame.iteration >= cfg.max_tool_iterations
current_tools == IF is_last_allowed THEN FALSE ELSE active_tools
current_fmt == IF ~current_tools THEN frame.response_format ELSE FALSE

\* The kwargs of one _call, as far as the tool loop decides them.
CallRecord(tools, response_format) ==
    [tools |-> tools, response_format |-> response_format, temperature |-> frame.temperature]

\* query() is left, by return or by an exception: the lists and names local
\* to the step and to the tool loop are gone, the caller's list stays.
Leave(result, user_messages) ==
    /\ pc' = "idle"
    /\ outcome' = result
    /\ frame' = NoFrame
    /\ heap' = [user |-> user_messages, outer |-> <<>>, local |-> <<>>]
    /\ local_ref' = "local"

\* _run_starter / _run_reviewer build `messages` (a new list: the system
\* prompt, then the caller's messages) and call _run_tool_loop, which reads
\* self.tools and binds local_messages to a copy.
run_tool_loop(step, model, temperature, response_format, system_prompt, user_messages) ==
    LET messages == <<Message("system", system_prompt)>> \o user_messages
    IN IF cfg.tools = "unset"
       THEN /\ Leave(Raised("AttributeError"), user_messages)
            /\ calls' = <<>>
       ELSE /\ pc' = "call"
            /\ outcome' = NoOutcome
            /\ local_ref' = list_copy("outer")
            /\ heap' = [user |-> user_messages, outer |-> messages,
                        local |-> IF list_copy("outer") = "local" THEN messages ELSE <<>>]
            /\ frame' = [step |-> step, model |-> model, temperature |-> temperature,
                         response_format |-> response_format,
                         iteration |-> 0, pending |-> <<>>, response |-> NoResponse]
            /\ calls' = <<>>

\* Mutant of reviewer_label: the cycle starts with model A.
reviewer_label_swapped(step) == IF step % 2 = 0 THEN "A" ELSE "B"

\* query(): reviewer_cycle[review_step % 2]: B on even steps, A on odd ones.
reviewer_label(step) == IF step % 2 = 0 THEN "B" ELSE "A"

\* Mutant of cap_reached: `>` for `>=`.
cap_reached_late(count) == cfg.max_iterations # NoneInt /\ count > cfg.max_iterations

\* query(): `self.max_iterations is not None and self.iteration_count >=
\* self.max_iterations`
cap_reached(count) == cfg.max_iterations # NoneInt /\ count >= cfg.max_iterations

\* query(): `temp = self._anneal_temp_a(a_review_count) if label == "A" else
\* self.temp_b`
review_temp(label, a_count) ==
    IF label = "A" THEN anneal_temp_a(cfg, a_count) ELSE cfg.temp_b

\* query(): the top of `while True` with the values just computed: return at
\* the iteration cap, else pick the reviewer, advance review_step and run it.
review_loop(answer, count, st, a_count) ==
    IF cap_reached(count)
    THEN /\ Leave(Returned("cap", answer), heap.user)
         /\ hist' = hist
         /\ UNCHANGED <<review_step, calls>>
    ELSE /\ cfg.max_iterations = NoneInt => count < StepBound
         /\ review_step' = review_step + 1
         /\ hist' = [hist EXCEPT !.steps =
                        Append(@, [step |-> "reviewer", model |-> reviewer_label(review_step)])]
         /\ run_tool_loop("reviewer", reviewer_label(review_step),
                          review_temp(reviewer_label(review_step), a_count), TRUE,
                          _format_reviewer_prompt(REVIEWER_PROMPT, format(st), answer),
                          heap.user)

\* Mutant of entry_usage: the totals of the earlier queries are kept.
entry_usage_kept(totals) == totals

\* query(): the three usage totals are set to 0 at entry.
entry_usage(totals) == ZeroUsage

\* Mutant of entry_count: the count a checkpoint or an earlier query left is kept.
entry_count_kept(count) == count

\* query(): `self.iteration_count = 0` at entry, whatever it was.
entry_count(count) == 0

\* query(messages), up to the first Completer call of the starter. The locals
\* current_answer, review_step and a_review_count of an earlier call are gone:
\* they start from their first values.
query(messages) ==
    /\ pc = "idle"
    /\ state' = AutoDecayingState(cfg.max_state_size)
    /\ iteration_count' = entry_count(iteration_count)
    /\ hist' = [NoHist EXCEPT !.messages = messages,
                              !.steps = <<[step |-> "starter", model |-> "A"]>>,
                              !.queries = hist.queries + 1,
                              !.before = [used |-> usage # ZeroUsage,
                                          loaded |-> state.notes # <<>>
                                                     /\ iteration_count > StepBound]]
    /\ run_tool_loop("starter", "A", anneal_temp_a(cfg, 0), FALSE, STARTER_PROMPT, messages)
    /\ usage' = entry_usage(usage)
    /\ current_answer' = <<>>
    /\ review_step' = 0
    /\ a_review_count' = 0
    /\ UNCHANGED <<ckpt, mcp, cli, cfg, completer>>

\* local_messages.append(message)
append_local(message) == [heap EXCEPT ![local_ref] = Append(@, message)]

\* The tool loop returns `response` to _run_starter / _run_reviewer.
loop_returns(response) ==
    /\ pc' = "loop_done"
    /\ frame' = [frame EXCEPT !.response = response]

\* Mutant of is_rejection: `except Exception`.
is_rejection_any(error) == TRUE

\* _run_reviewer: `except litellm.exceptions.BadRequestError`
is_rejection(error) == error = "BadRequestError"

\* An exception of a Completer call inside _run_tool_loop: the reviewer's
\* first attempt (the one made with response_format) catches BadRequestError
\* and runs the tool loop again without response_format; everything else
\* leaves query().
completer_raises(error) ==
    IF frame.step = "reviewer" /\ frame.response_format /\ is_rejection(error)
    THEN /\ pc' = "call"
         /\ local_ref' = list_copy("outer")
         /\ heap' = [heap EXCEPT !.local =
                        IF list_copy("outer") = "local" THEN heap.outer ELSE <<>>]
         /\ frame' = [frame EXCEPT !.response_format = FALSE, !.iteration = 0,
                                   !.pending = <<>>, !.response = NoResponse]
         /\ calls' = <<>>
         /\ hist' = [hist EXCEPT !.completions = @ + 1, !.retries = @ + 1,
                                 !.raised = Append(@, error)]
         /\ UNCHANGED <<outcome, usage>>
    ELSE /\ Leave(Raised(error), heap.user)
         /\ hist' = [hist EXCEPT !.completions = @ + 1, !.raised = Append(@, error)]
         /\ UNCHANGED usage
         /\ calls' = Append(calls, CallRecord(IF pc = "call" THEN current_tools ELSE FALSE,
                                              IF pc = "call" THEN current_fmt ELSE TRUE))

\* Whether a reply without tool calls to the call of this iteration goes back
\* to the step as its completion (and not into the deferred structured call).
is_returned == ~(~current_fmt /\ frame.response_format)

\* _run_tool_loop: the call of one loop iteration (line 176) and what follows
\* it up to the next Completer or executor call.
Call ==
    /\ pc = "call"
    /\ \/ \E error \in CompleterErrors : completer_raises(error)
       \/ \E response \in Responses(IF frame.step = "reviewer" /\ is_returned
                                    THEN completer.verdicts ELSE DraftContents),
             report \in completer.reports :
            /\ usage' = _accumulate_usage(usage, report)
            /\ calls' = Append(calls, CallRecord(current_tools, current_fmt))
            /\ hist' = [hist EXCEPT !.completions = @ + 1, !.reports[report] = @ + 1]
            /\ UNCHANGED <<outcome, local_ref>>
            /\ IF response.tool_calls = <<>>
               THEN IF ~current_fmt /\ frame.response_format
                    THEN \* response_format was deferred: keep the reply as an
                         \* assistant turn, then ask again with it.
                         /\ pc' = "deferred"
                         /\ heap' = IF strip(OrEmpty(response.content)) # <<>>
                                    THEN append_local(Message("assistant",
                                                              OrEmpty(response.content)))
                                    ELSE heap
                         /\ frame' = [frame EXCEPT !.response = response]
                    ELSE /\ loop_returns(response)
                         /\ UNCHANGED heap
               ELSE IF is_last_allowed
                    THEN /\ loop_returns(response)
                         /\ UNCHANGED heap
                    ELSE /\ pc' = "dispatch"
                         /\ heap' = append_local(AssistantMessage(response))
                         /\ frame' = [frame EXCEPT !.response = response,
                                                   !.pending = response.tool_calls]
    /\ UNCHANGED <<ckpt, mcp, cli, cfg, completer, state, iteration_count, current_answer, review_step, a_review_count>>

\* _run_tool_loop: the final structured call (line 202), made with
\* response_format and tools=None.
DeferredCall ==
    /\ pc = "deferred"
    /\ \/ \E error \in CompleterErrors : completer_raises(error)
       \/ \E response \in Responses(completer.verdicts), report \in completer.reports :
            /\ usage' = _accumulate_usage(usage, report)
            /\ calls' = Append(calls, CallRecord(FALSE, TRUE))
            /\ hist' = [hist EXCEPT !.completions = @ + 1, !.reports[report] = @ + 1]
            /\ loop_returns(response)
            /\ UNCHANGED <<outcome, local_ref, heap>>
    /\ UNCHANGED <<ckpt, mcp, cli, cfg, completer, state, iteration_count, current_answer, review_step, a_review_count>>

\* _run_tool_loop: one turn of `for tc in tool_calls`: dispatch the call and
\* append its tool message; after the last one the for loop moves on.
Dispatch ==
    /\ pc = "dispatch"
    /\ LET tc == Head(frame.pending)
       IN /\ heap' = append_local(ToolMessage(tc, _dispatch_tool_call(tc)))
          /\ IF Tail(frame.pending) = <<>>
             THEN /\ frame' = [frame EXCEPT !.pending = <<>>, !.iteration = @ + 1]
                  /\ hist' = [hist EXCEPT !.tool_rounds = @ + 1]
                  /\ pc' = "call"
             ELSE /\ frame' = [frame EXCEPT !.pending = Tail(@)]
                  /\ hist' = hist
                  /\ pc' = "dispatch"
    /\ UNCHANGED <<ckpt, mcp, cli, cfg, completer, usage, state, iteration_count, current_answer, review_step,
                   a_review_count, local_ref, calls, outcome>>

\* Mutant of count_step: every Completer call of the step is counted.
count_step_calls(count) == count + Len(calls)

\* query(): `self.iteration_count += 1` after _run_starter / _run_reviewer
\* returned.
count_step(count) == count + 1

\* _run_starter after the tool loop, then query() up to the next Completer
\* call or its return.
StarterDone ==
    /\ pc = "loop_done"
    /\ frame.step = "starter"
    /\ IF ~HasText(frame.response.content)
       THEN /\ Leave(Raised("AssertionError"), heap.user)
            /\ UNCHANGED <<iteration_count, current_answer, review_step, calls, hist>>
       ELSE /\ current_answer' = frame.response.content
            /\ iteration_count' = count_step(iteration_count)
            /\ review_loop(frame.response.content, count_step(iteration_count), state,
                           a_review_count)
    /\ UNCHANGED <<ckpt, mcp, cli, cfg, completer, usage, state, a_review_count>>

\* Mutant of accepted_answer: the answer under review is returned.
accepted_answer_stale(result, answer) == answer

\* query(): `return result.output` on acceptance (current_answer is not used).
accepted_answer(result, answer) == result.output

\* Mutant of next_answer: the answer under review stays the current answer.
next_answer_stale(result, answer) == answer

\* query(): `current_answer = result.output` on rejection.
next_answer(result, answer) == result.output

\* _run_reviewer after the tool loop (parse the verdict), then query(): count
\* the step, return on acceptance, else add the notes, take the output as the
\* current answer and go round the loop.
ReviewerDone ==
    /\ pc = "loop_done"
    /\ frame.step = "reviewer"
    /\ LET verdict == parse_verdict(frame.response.content)
           result == verdict.result
       IN IF verdict.error # ""
          THEN /\ Leave([Raised(verdict.error) EXCEPT !.value = verdict.raw], heap.user)
               /\ UNCHANGED <<state, iteration_count, current_answer, review_step,
                              a_review_count, calls, hist>>
          ELSE /\ iteration_count' = count_step(iteration_count)
               /\ a_review_count' = IF frame.model = "A" THEN a_review_count + 1
                                    ELSE a_review_count
               /\ IF result.review_result
                  THEN /\ Leave(Returned("accepted", accepted_answer(result, current_answer)),
                                  heap.user)
                       /\ UNCHANGED <<state, current_answer, review_step, calls, hist>>
                  ELSE \E evict_indices \in evict_choices(state, result.added_notes) :
                         /\ state' = add_notes(state, result.added_notes, evict_indices)
                         /\ current_answer' = next_answer(result, current_answer)
                         /\ review_loop(next_answer(result, current_answer),
                                        count_step(iteration_count),
                                        add_notes(state, result.added_notes, evict_indices),
                                        IF frame.model = "A" THEN a_review_count + 1
                                        ELSE a_review_count)
    /\ UNCHANGED <<ckpt, mcp, cli, cfg, completer, usage>>

Next ==
    \/ \E messages \in MessageLists : outcome.kind = "none" /\ query(messages)
    \/ Call
    \/ DeferredCall
    \/ Dispatch
    \/ StarterDone
    \/ ReviewerDone

Spec == Init /\ [][Next]_vars

\* ============================================================ notes alone
\* The notes memory driven directly: add_notes with any batch, and clear.
NoteAlphabet == {"a", "b"}
Batches == UNION {[1..n -> NoteAlphabet] : n \in 0..MaxBatchLen}

\* AutoDecayingState.add_notes(new_notes) as a call of its own; random.sample
\* raises ValueError, before anything is deleted, when asked for more
\* positions than there are notes.
AddNotes(new_notes) ==
    /\ pc = "idle"
    /\ IF evict_choices(state, new_notes) = {}
       THEN /\ outcome' = Raised("ValueError")
            /\ UNCHANGED <<state, hist>>
       ELSE \E evict_indices \in evict_choices(state, new_notes) :
              /\ state' = add_notes(state, new_notes, evict_indices)
              /\ hist' = [hist EXCEPT !.prev_notes = state.notes, !.batch = new_notes,
                                      !.evicted = evict_indices]
              /\ outcome' = NoOutcome
    /\ UNCHANGED <<ckpt, mcp, cli, cfg, completer, usage, iteration_count, pc, heap, local_ref, current_answer,
                   review_step, a_review_count, frame, calls>>

\* AutoDecayingState.clear
Clear ==
    /\ pc = "idle"
    /\ state' = [state EXCEPT !.notes = <<>>]
    /\ hist' = [hist EXCEPT !.prev_notes = <<>>, !.batch = <<>>, !.evicted = {}]
    /\ UNCHANGED <<ckpt, mcp, cli, cfg, completer, usage, iteration_count, pc, heap, local_ref, current_answer,
                   review_step, a_review_count, frame, calls, outcome>>

NotesConfigs ==
    [max_state_size : 1..MaxNotesSize,
     max_iterations : {NoneInt},
     tools : {"unset"},
     max_tool_iterations : {0}]

InitNotes ==
    /\ \E config \in NotesConfigs : Construct(config)
    /\ completer = SilentCompleter
    /\ ckpt = NewCheckpointStore
    /\ mcp = NewMCPClient
    /\ cli = NewCLI

NextNotes ==
    \/ \E new_notes \in Batches : AddNotes(new_notes)
    \/ Clear

SpecNotes == InitNotes /\ [][NextNotes]_vars

\* ============================================================ sessions
\* A controller without tools (every outer step is one Completer call), with
\* room in the notes memory for one note or for two batches of
\* MinRejectNotes, and any iteration cap the followed steps can reach.
MaxQueries == 2

PlainStateSizes == {1, 2 * MinRejectNotes}

SessionConfigs ==
    [max_state_size : PlainStateSizes,
     max_iterations : 1..StepBound,
     tools : {"none"},
     max_tool_iterations : {0}]

\* checkpoint.py / state.py: the checkpoint files load_checkpoint can find,
\* as the dicts json.load gives.
CP_SAVED == [state |-> [max_size |-> 2, notes |-> <<"x", "y">>], iteration_count |-> 3]
CP_OTHER_SIZE ==
    [state |-> [max_size |-> 1, notes |-> <<"x", "y">>], iteration_count |-> 2 * StepBound]
CP_NO_COUNT == [state |-> [max_size |-> 2, notes |-> <<"x">>]]
CP_NO_NOTES == [state |-> [max_size |-> 2], iteration_count |-> 1]

Checkpoints == {CP_SAVED, CP_OTHER_SIZE, CP_NO_COUNT, CP_NO_NOTES}

\* AutoDecayingState.from_dict
from_dict(data) ==
    IF {"max_size", "notes"} \subseteq DOMAIN data /\ data.max_size > 0
    THEN [ok |-> TRUE, obj |-> [max_size |-> data.max_size, notes |-> data.notes]]
    ELSE [ok |-> FALSE, obj |-> AutoDecayingState(1)]

\* load_checkpoint(path) on a file holding checkpoint: an AssertionError
\* (missing keys) leaves the controller as it was.
load_checkpoint(checkpoint) ==
    /\ pc = "idle"
    /\ IF {"state", "iteration_count"} \subseteq DOMAIN checkpoint
          /\ from_dict(checkpoint.state).ok
       THEN /\ state' = from_dict(checkpoint.state).obj
            /\ iteration_count' = checkpoint.iteration_count
       ELSE UNCHANGED <<state, iteration_count>>
    /\ UNCHANGED <<ckpt, mcp, cli, cfg, completer, usage, pc, heap, local_ref, current_answer, review_step,
                   a_review_count, frame, calls, outcome, hist>>

\* reset(): a new notes memory and iteration_count = 0; the usage totals stay.
reset ==
    /\ pc = "idle"
    /\ state' = AutoDecayingState(cfg.max_state_size)
    /\ iteration_count' = 0
    /\ UNCHANGED <<ckpt, mcp, cli, cfg, completer, usage, pc, heap, local_ref, current_answer, review_step,
                   a_review_count, frame, calls, outcome, hist>>

InitSession ==
    /\ \E config \in SessionConfigs : Construct(config)
    /\ completer = MeteredCompleter
    /\ ckpt = NewCheckpointStore
    /\ mcp = NewMCPClient
    /\ cli = NewCLI

NextSession ==
    \/ \E messages \in MessageLists : hist.queries < MaxQueries /\ query(messages)
    \/ Call
    \/ StarterDone
    \/ ReviewerDone
    \/ \E checkpoint \in Checkpoints : load_checkpoint(checkpoint)
    \/ reset

SpecSession == InitSession /\ [][NextSession]_vars

\* ============================================================ usage
\* One query (a starter step and one review) of a controller with tools, on a
\* Completer whose responses carry every shape of usage report.
UsageConfigs ==
    [max_state_size : {1},
     max_iterations : {2},
     tools : {"some"},
     max_tool_iterations : {MaxToolIterations}]

InitUsage ==
    /\ \E config \in UsageConfigs : Construct(config)
    /\ completer = AnyCompleter
    /\ ckpt = NewCheckpointStore
    /\ mcp = NewMCPClient
    /\ cli = NewCLI

SpecUsage == InitUsage /\ [][Next]_vars

\* ============================================================ annealing
\* One query of a controller without tools, over the valid temperature
\* settings (0 <= temp_a_end <= temp_a_start, temp_a_anneal_steps None or
\* positive) and a Completer whose reviewers accept or reject.
AnnealConfigs ==
    {c \in [max_state_size : {MinRejectNotes},
            max_iterations : {NoneInt, MaxAnnealSteps + 2},
            tools : {"none"},
            max_tool_iterations : {0},
            temp_a_start : Temperatures,
            temp_a_end : Temperatures,
            temp_a_anneal_steps : {NoneInt} \cup (1..MaxAnnealSteps),
            temp_b : {F_0_0, F_0_3}] :
        float_leq(c.temp_a_end, c.temp_a_start)}

PlainCompleter == [reports |-> {NO_USAGE}, verdicts |-> {<<J_ACCEPT>>, <<J_REJECT>>}]

InitAnneal ==
    /\ \E config \in AnnealConfigs : Construct(config)
    /\ completer = PlainCompleter
    /\ ckpt = NewCheckpointStore
    /\ mcp = NewMCPClient
    /\ cli = NewCLI

NextAnneal ==
    \/ \E messages \in MessageLists : outcome.kind = "none" /\ query(messages)
    \/ Call
    \/ StarterDone
    \/ ReviewerDone

SpecAnneal == InitAnneal /\ [][NextAnneal]_vars

\* ============================================================ MCP and CLI alone
\* The MCP client with its threads, and the command-line session with its
\* clients, each on its own (the controller stays as constructed).
InitMCP ==
    /\ Construct(CHOOSE config \in NotesConfigs : config.max_state_size = 1)
    /\ completer = SilentCompleter
    /\ ckpt = NewCheckpointStore
    /\ mcp = NewMCPClient
    /\ cli = NewCLI

NextMCP ==
    \/ connect
    \/ connect_returns
    \/ close
    \/ close_returns
    \/ get_executors
    \/ \E name \in names_of(ServerTools), arguments \in ToolArguments :
          _call_tool_sync(name, arguments)
    \/ dispatch_call
    \/ call_tool
    \/ call_returns
    \/ \E w \in DOMAIN mcp.workers : target(w)
    \/ \E w \in DOMAIN mcp.workers : main_session(w)
    \/ \E w \in DOMAIN mcp.workers : main_initialize(w)
    \/ \E w \in DOMAIN mcp.workers : main_list_tools(w)
    \/ \E w \in DOMAIN mcp.workers : main_wait(w)
    \/ \E w \in DOMAIN mcp.workers : main_closing(w)
    \/ \E w \in DOMAIN mcp.workers : main_except(w)
    \/ \E w \in DOMAIN mcp.workers : main_finally(w)

SpecMCP == InitMCP /\ [][NextMCP]_vars

InitCLI ==
    /\ Construct(CHOOSE config \in NotesConfigs : config.max_state_size = 1)
    /\ completer = SilentCompleter
    /\ ckpt = NewCheckpointStore
    /\ mcp = NewMCPClient
    /\ cli = NewCLI

NextCLI ==
    \/ \E listing \in ToolLists : cli_connect(listing)
    \/ cli_disconnect
    \/ cli_inference

SpecCLI == InitCLI /\ [][NextCLI]_vars

\* ============================================================ properties
\* The states in which a _run_tool_loop invocation is running or has just
\* handed its completion back.
InToolLoop == pc \in {"call", "deferred", "dispatch", "loop_done"}

LastCall == calls[Len(calls)]

\* C1: starting from a freshly constructed notes memory, after every
\* add_notes call (any batch: empty, short, longer than max_size) the memory
\* holds at most max_size notes.
C1_NotesBound == Len(state.notes) <= state.max_size

\* C1 witness: a batch longer than max_size was added to a memory that held
\* notes, and the memory is full.
C1_Witness ==
    /\ Len(hist.batch) > state.max_size
    /\ hist.prev_notes # <<>>
    /\ hist.evicted # {}
    /\ Len(state.notes) = state.max_size

C3_ReviewerOrder ==
    /\ hist.steps # <<>> =>
          /\ hist.steps[1] = [step |-> "starter", model |-> "A"]
          /\ review_step = Len(hist.steps) - 1
    /\ \A i \in 2..Len(hist.steps) :
          hist.steps[i] = [step |-> "reviewer",
                           model |-> IF (i - 1) % 2 = 1 THEN "B" ELSE "A"]
    /\ (InToolLoop /\ frame.step = "reviewer") =>
          frame.model = hist.steps[Len(hist.steps)].model

\* C3 witness: a second review is running (model A), after model B rejected.
C3_Witness ==
    /\ Len(hist.steps) = 3
    /\ pc = "call"
    /\ frame.model = "A"
    /\ state.notes # <<>>

\* C4: one invocation of the tool loop issues at most max_tool_iterations + 1
\* Completer calls, whatever the model replies and with or without
\* response_format.
C4_ToolLoopBound == Len(calls) <= cfg.max_tool_iterations + 1

\* C4 witness: an invocation with tools registered used the whole budget:
\* max_tool_iterations tool rounds and one more call.
C4_Witness ==
    /\ pc = "loop_done"
    /\ cfg.tools = "some"
    /\ cfg.max_tool_iterations >= 1
    /\ frame.iteration = cfg.max_tool_iterations
    /\ Len(calls) = cfg.max_tool_iterations + 1

\* C5 as claimed: the completion a tool-loop invocation returns always comes
\* from a call that offered no tools.
C5_LastCallToolless == pc = "loop_done" => ~LastCall.tools

\* C5 amended: the returned completion comes from a call that offered no tools
\* whenever the invocation had a response_format, or used up its tool rounds,
\* or no tools are registered; otherwise it may come from a call that offered
\* tools, and then it carries no tool calls.
C5_ReturnedCall ==
    pc = "loop_done" =>
       /\ (frame.response_format \/ is_last_allowed \/ ~active_tools) => ~LastCall.tools
       /\ LastCall.tools => frame.response.tool_calls = <<>>

\* C5 witness: with tools registered, the starter's tool loop ran a tool round
\* and its last call, on the last allowed iteration, offered no tools.
C5_Witness ==
    /\ pc = "loop_done"
    /\ frame.step = "starter"
    /\ cfg.tools = "some"
    /\ Len(calls) >= 2
    /\ calls[1].tools
    /\ ~LastCall.tools

\* C6: no call that offers tools carries response_format, and when the
\* invocation has response_format = json_object the completion it returns
\* comes from a call that carried response_format and offered no tools.
C6_StructuredFinal ==
    /\ \A i \in DOMAIN calls : ~(calls[i].tools /\ calls[i].response_format)
    /\ (pc = "loop_done" /\ frame.response_format) =>
          (LastCall.response_format /\ ~LastCall.tools)

\* C6 witness: a reviewer invocation with tools registered got a reply
\* without tool calls from a call that offered tools (no response_format),
\* kept it as an assistant turn and returned the reply of the deferred
\* structured call.
C6_Witness ==
    /\ pc = "loop_done"
    /\ frame.response_format
    /\ Len(calls) = 2
    /\ calls[1].tools
    /\ ~calls[1].response_format
    /\ LastCall.response_format
    /\ Len(heap.local) = Len(heap.outer) + 1

\* The tool calls whose execution fails: no executor of that name, an
\* executor that raises, arguments that are not JSON.
AllToolCalls == UNION {{tcs[i] : i \in DOMAIN tcs} : tcs \in ToolCallLists}

ToolCallFails(tc) ==
    \/ tc.name \notin tool_registry
    \/ tc.arguments = ARGS_BAD_JSON
    \/ execute_math_tool(IF tc.arguments = "" THEN ARGS_EMPTY ELSE tc.arguments).raised

\* C7 as claimed: the tool message of every failed tool call begins with
\* "Error: " (here: its first word is "Error:").
C7_ErrorPrefix ==
    \A i \in DOMAIN heap.local :
       \A tc \in AllToolCalls :
          (heap.local[i].role = "tool" /\ heap.local[i].tool_call_id = tc.id
           /\ ToolCallFails(tc))
          => Head(heap.local[i].content) = "Error:"

\* C8: the list the caller passed to query() holds the same messages in the
\* same order from entry on, through every step and tool round and after
\* query returned or raised; so does the list a step hands to the tool loop
\* (the system prompt, then the caller's messages): tool turns go to the
\* loop's own copy.
C8_CallerMessagesKept ==
    /\ heap.user = hist.messages
    /\ InToolLoop =>
          /\ Len(heap.outer) = Len(hist.messages) + 1
          /\ heap.outer[1].role = "system"
          /\ Tail(heap.outer) = hist.messages
          /\ local_ref = "local"

\* C8 witness: a reviewer's tool loop ran a tool round, so its local copy
\* holds tool turns the caller's list does not.
C8_Witness ==
    /\ pc = "loop_done"
    /\ frame.step = "reviewer"
    /\ frame.iteration >= 1
    /\ Len(heap.local) > Len(heap.user) + 2
    /\ heap.user = hist.messages

\* C9 as claimed: what query returns is a non-empty string.
C9_NonEmptyResult == outcome.kind = "returned" => outcome.value # <<>>

\* C10, the accepting step: query returns the output of the verdict just
\* parsed, the notes memory is as before the step, and iteration_count is the
\* number of reviews made plus one.
AcceptingStep ==
    /\ pc = "loop_done"
    /\ frame.step = "reviewer"
    /\ outcome'.kind = "returned"
    /\ outcome'.via = "accepted"

\* C10: when the n-th reviewer accepts, query returns that verdict's output,
\* iteration_count = n + 1 and the accepting step leaves the notes unchanged
\* (an immediate accept ends with empty notes and iteration_count = 2).
C10_Acceptance ==
    /\ [][AcceptingStep =>
             /\ outcome'.value = json_loads(_extract_json(frame.response.content)).data.output
             /\ state' = state
             /\ iteration_count' = review_step + 1]_vars
    /\ [](outcome.via = "accepted" =>
             /\ iteration_count = Len(hist.steps)
             /\ (review_step = 1 => (state.notes = <<>> /\ iteration_count = 2)))

\* C10 witness: model A accepted at the second review with an output that is
\* not the answer under review; the notes of the first rejection are in place.
C10_Witness ==
    /\ outcome.kind = "returned"
    /\ outcome.via = "accepted"
    /\ review_step = 2
    /\ iteration_count = 3
    /\ state.notes = <<"n1", "n2">>
    /\ outcome.value = <<"final">>
    /\ current_answer = <<"B">>

\* The smaller of two numbers.
Min(a, b) == IF a <= b THEN a ELSE b

\* The verdict _run_reviewer hands to query() at the end of a reviewer step.
Verdict == parse_verdict(frame.response.content)

RejectingStep ==
    /\ pc = "loop_done"
    /\ frame.step = "reviewer"
    /\ Verdict.error = ""
    /\ ~Verdict.result.review_result

StarterCapStep ==
    /\ pc = "loop_done"
    /\ frame.step = "starter"
    /\ outcome'.kind = "returned"

\* C11: on each rejection the verdict's added_notes go into the notes memory
\* (its new tail is the batch, its length grows by the batch up to max_size)
\* and the verdict's output becomes the current answer; a query stopped by
\* the iteration cap returns the output of the rejection just made, or the
\* starter's text when no review ran, with iteration_count = max_iterations.
C11_Rejection ==
    /\ [][RejectingStep =>
             LET added == Verdict.result.added_notes
                 k == Min(Len(added), state.max_size)
                 n == Len(state'.notes)
             IN /\ current_answer' = Verdict.result.output
                /\ n = Min(state.max_size, Len(state.notes) + Len(added))
                /\ SubSeq(state'.notes, n - k + 1, n)
                      = SubSeq(added, Len(added) - k + 1, Len(added))
                /\ outcome'.kind = "returned" =>
                      (outcome'.via = "cap" /\ outcome'.value = Verdict.result.output)]_vars
    /\ [][StarterCapStep =>
             /\ outcome'.via = "cap"
             /\ outcome'.value = frame.response.content
             /\ state'.notes = <<>>]_vars
    /\ [][(outcome.kind = "none" /\ outcome'.via = "cap") =>
             /\ outcome'.value = current_answer'
             /\ iteration_count' = cfg.max_iterations]_vars

\* C11 witness: max_iterations = 3, two rejections of two notes each with
\* different outputs: query returned the second one's output, with
\* iteration_count = 3 and 4 notes.
C11_Witness ==
    /\ outcome.via = "cap"
    /\ cfg.max_iterations = 3
    /\ iteration_count = 3
    /\ state.notes = <<"n3", "", "n1", "n2">>
    /\ outcome.value = <<"B">>

\* A query is entered: the step that counts it.
QueryEntry == hist'.queries = hist.queries + 1

\* The tokens and the cost the responses of the current (or latest) query
\* reported (hist.reports counts them by report): those with usage, a missing
\* token field counting 0, a cost only where it could be estimated.
Metered == {report \in UsageReports : "usage" \in DOMAIN report}

Amount(report, field) ==
    IF field = "cost"
    THEN (IF "cost" \in DOMAIN report THEN report.cost ELSE 0)
    ELSE (IF field \in DOMAIN report.usage THEN report.usage[field] ELSE 0)

RECURSIVE SumOver(_, _, _)
SumOver(counts, reports, field) ==
    IF reports = {} THEN 0
    ELSE LET report == CHOOSE r \in reports : TRUE
         IN counts[report] * Amount(report, field)
            + SumOver(counts, reports \ {report}, field)

Reported(field) == SumOver(hist.reports, Metered, field)

\* C12: whatever happened before (queries that returned or raised,
\* load_checkpoint, reset), entering a query leaves an empty notes memory of
\* the configured size, iteration_count = 0 and usage totals 0; so last_usage
\* is in every state what the responses of the current (or latest) query
\* reported.
C12_ResetAtEntry ==
    /\ [][QueryEntry =>
             /\ state' = AutoDecayingState(cfg.max_state_size)
             /\ iteration_count' = 0
             /\ usage' = ZeroUsage]_vars
    /\ [](/\ last_usage.prompt_tokens = Reported("prompt_tokens")
          /\ last_usage.completion_tokens = Reported("completion_tokens")
          /\ last_usage.cost_usd = Reported("cost")
          /\ last_usage.total_tokens
                = Reported("prompt_tokens") + Reported("completion_tokens"))

\* C12 witness: a second query was entered on a controller that had usage
\* totals from the first query and the notes and iteration_count of a
\* checkpoint loaded after it; it returned with the usage of its own two calls.
C12_Witness ==
    /\ hist.queries = 2
    /\ hist.before = [used |-> TRUE, loaded |-> TRUE]
    /\ outcome.kind = "returned"
    /\ hist.completions = 2
    /\ hist.reports[FULL_USAGE] = 1
    /\ last_usage.total_tokens = 5

\* A Completer call returned a response that carried this report.
ResponseStep(report) == hist'.reports = [hist.reports EXCEPT ![report] = @ + 1]

\* C13: within a query the usage totals never decrease; a response with usage
\* adds exactly its prompt and completion tokens (a missing field: 0) and its
\* estimated cost (a failed estimate: nothing); a response without usage and
\* every step that is no Completer response leave the totals as they are;
\* total_tokens of last_usage is prompt_tokens + completion_tokens.
C13_UsageTotals ==
    /\ [][~QueryEntry =>
             /\ usage'.prompt_tokens >= usage.prompt_tokens
             /\ usage'.completion_tokens >= usage.completion_tokens
             /\ usage'.cost_usd >= usage.cost_usd
             /\ \A report \in Metered :
                   ResponseStep(report) =>
                      /\ usage'.prompt_tokens
                            = usage.prompt_tokens + Amount(report, "prompt_tokens")
                      /\ usage'.completion_tokens
                            = usage.completion_tokens + Amount(report, "completion_tokens")
                      /\ usage'.cost_usd = usage.cost_usd + Amount(report, "cost")
             /\ (\A report \in Metered : ~ResponseStep(report)) => usage' = usage]_vars
    /\ [](last_usage.total_tokens
             = last_usage.prompt_tokens + last_usage.completion_tokens)

\* C13 witness: the starter made a tool round (two calls) and the reviewer
\* a call with tools and the deferred structured call; the four responses
\* carried the four shapes of report, and the totals are those of the three
\* with usage.
C13_Witness ==
    /\ pc = "loop_done"
    /\ frame.step = "reviewer"
    /\ Len(calls) = 2
    /\ LastCall.response_format
    /\ hist.tool_rounds = 1
    /\ \A report \in UsageReports : hist.reports[report] = 1
    /\ usage = [prompt_tokens |-> 6, completion_tokens |-> 4, cost_usd |-> 10]

\* C14: iteration_count grows by exactly one when an outer step (starter or
\* reviewer) completes and by nothing inside a step, however many Completer
\* calls and tool rounds the step makes: while a step runs it is the number of
\* steps completed before it, and when query returns it is the number of
\* outer steps made.
C14_StepCount ==
    /\ [][/\ pc \in {"call", "deferred", "dispatch"} => iteration_count' = iteration_count
          /\ (pc = "loop_done" /\ outcome'.kind # "raised") =>
                iteration_count' = iteration_count + 1]_vars
    /\ [](InToolLoop => iteration_count = Len(hist.steps) - 1)
    /\ [](outcome.kind = "returned" => iteration_count = Len(hist.steps))

\* C14 witness: the starter made two Completer calls (one tool round), the
\* reviewer two (the call with tools and the deferred structured one) and
\* accepted: iteration_count = 2 after four Completer calls.
C14_Witness ==
    /\ outcome.kind = "returned"
    /\ outcome.via = "accepted"
    /\ cfg.tools = "some"
    /\ cfg.max_tool_iterations = 1
    /\ hist.completions = 4
    /\ hist.tool_rounds = 1
    /\ hist.retries = 0
    /\ iteration_count = 2

\* The larger of two numbers.
Max(a, b) == IF a >= b THEN a ELSE b

\* The latest add_notes call: the notes before it, its batch, the positions
\* it evicted; the part of the batch that can fit, and the overflow.
Fitting == Min(Len(hist.batch), state.max_size)
Removed == Max(0, Fitting + Len(hist.prev_notes) - state.max_size)

\* The notes of old_notes outside the positions evicted, from position i on,
\* in their order.
RECURSIVE Kept(_, _, _)
Kept(old_notes, evicted, i) ==
    IF i > Len(old_notes) THEN <<>>
    ELSE (IF i \in evicted THEN <<>> ELSE <<old_notes[i]>>) \o Kept(old_notes, evicted, i + 1)

\* C15: add_notes(b) on a memory of prev_len <= max_size notes removes
\* max(0, min(len(b), max_size) + prev_len - max_size) of the notes that were
\* there, at that many distinct positions of the old list.
C15_EvictionCount ==
    /\ Len(hist.prev_notes) <= state.max_size
    /\ hist.evicted \subseteq 1..Len(hist.prev_notes)
    /\ Cardinality(hist.evicted) = Removed
    /\ Len(state.notes) = Len(hist.prev_notes) - Removed + Fitting

\* C15 witness: max_size = 3, three notes, a batch of two: two notes evicted.
C15_Witness ==
    /\ state.max_size = 3
    /\ Len(hist.prev_notes) = 3
    /\ Len(hist.batch) = 2
    /\ Cardinality(hist.evicted) = 2
    /\ Len(state.notes) = 3

\* C16: after add_notes(b) the last min(len(b), max_size) notes are the
\* trailing min(len(b), max_size) entries of b, in b's order.
C16_BatchAtTail ==
    SubSeq(state.notes, Len(state.notes) - Fitting + 1, Len(state.notes))
       = SubSeq(hist.batch, Len(hist.batch) - Fitting + 1, Len(hist.batch))

\* C16 witness: a batch of three whose leading two and trailing two entries
\* differ, added to a memory of size 2 that held notes.
C16_Witness ==
    /\ state.max_size = 2
    /\ hist.batch = <<"a", "b", "b">>
    /\ hist.prev_notes # <<>>
    /\ state.notes = <<"b", "b">>

\* C17: after add_notes(b) the old notes that were not evicted come first, in
\* the order they had, and the appended notes follow them.
C17_SurvivorsInOrder ==
    /\ Len(state.notes) >= Fitting
    /\ SubSeq(state.notes, 1, Len(state.notes) - Fitting)
          = Kept(hist.prev_notes, hist.evicted, 1)

\* C17 witness: of three notes the last one was evicted; the two survivors
\* kept their order in front of the appended note.
C17_Witness ==
    /\ hist.prev_notes = <<"a", "b", "a">>
    /\ hist.evicted = {3}
    /\ hist.batch = <<"b">>
    /\ state.notes = <<"a", "b", "b">>

\* A reviewer step hands its reply to the parser; the JSON dict of the reply
\* and the notes it carries.
ReviewStep == pc = "loop_done" /\ frame.step = "reviewer"
Reply == json_loads(_extract_json(OrEmpty(frame.response.content)))
ReplyNotes == IF "added_notes" \in DOMAIN Reply.data THEN Reply.data.added_notes ELSE <<>>
ReplyRejects == Reply.ok /\ ~Reply.data.review_result
ReplyAccepts == Reply.ok /\ Reply.data.review_result

\* C18: a reviewer step that goes on as a rejection (its notes are added, the
\* loop continues or stops at the cap) had a rejecting reply with 2 to 8
\* notes; a rejecting reply with fewer or more notes raises in the parser and
\* leaves the notes memory and iteration_count as they were.
C18_RejectNotesCount ==
    /\ [][(ReviewStep /\ outcome'.kind # "raised" /\ outcome'.via # "accepted") =>
             /\ ReplyRejects
             /\ Len(ReplyNotes) >= 2
             /\ Len(ReplyNotes) <= 8]_vars
    /\ [][(ReviewStep /\ ReplyRejects /\ (Len(ReplyNotes) < 2 \/ Len(ReplyNotes) > 8)) =>
             /\ outcome'.kind = "raised"
             /\ state' = state
             /\ iteration_count' = iteration_count]_vars

\* C18 witness: a rejection with 8 notes passed the parser and its notes went
\* into the memory (the last max_size of them).
C18_Witness ==
    /\ pc = "call"
    /\ Len(hist.steps) = 3
    /\ state.max_size = 4
    /\ state.notes = <<"n5", "n6", "n7", "n8">>
    /\ iteration_count = 2

\* C19: every reviewer verdict that parses successfully with review_result =
\* true has an empty added_notes list, and an accepting reply that carries
\* notes is rejected by parsing (the query raises instead of returning).
C19_AcceptHasNoNotes ==
    /\ [][(ReviewStep /\ outcome'.kind # "raised" /\ ReplyAccepts) => ReplyNotes = <<>>]_vars
    /\ [][(ReviewStep /\ ReplyAccepts /\ ReplyNotes # <<>>) => outcome'.kind = "raised"]_vars

\* C20: in every state reachable during a query, whatever notes the
\* reviewers return, every element of the notes memory is a non-empty string.
C20_NotesNonEmpty == \A i \in DOMAIN state.notes : state.notes[i] # ""

\* The step numbers the schedule is looked at for: up to two steps past the
\* end of the longest schedule (DefaultAnnealSteps when nothing sets T).
ScheduleSteps == 0..(DefaultAnnealSteps + 2)

\* T of the schedule: temp_a_anneal_steps if given, else max_iterations if
\* set, else 10; the attribute holds the first two cases.
AnnealT ==
    IF cfg.temp_a_anneal_steps # NoneInt THEN cfg.temp_a_anneal_steps ELSE DefaultAnnealSteps

\* C21: for every valid configuration and every step k >= 0: anneal(0) =
\* temp_a_start, anneal(k+1) <= anneal(k), anneal(k) = temp_a_end for all
\* k >= T, and temp_a_end <= anneal(k) <= temp_a_start.
C21_AnnealSchedule ==
    /\ _anneal_temp_a(cfg, 0) = cfg.temp_a_start
    /\ \A k \in ScheduleSteps :
          /\ float_leq(_anneal_temp_a(cfg, k + 1), _anneal_temp_a(cfg, k))
          /\ k >= AnnealT => _anneal_temp_a(cfg, k) = cfg.temp_a_end
          /\ float_leq(cfg.temp_a_end, _anneal_temp_a(cfg, k))
          /\ float_leq(_anneal_temp_a(cfg, k), cfg.temp_a_start)

\* The temperature the schedule gives the running step: step 0 for the
\* starter, step j for the j-th model-A review of the query (a_review_count
\* counts the model-A reviews that have returned), temp_b for model B.
ScheduledTemp ==
    IF frame.step = "starter" THEN _anneal_temp_a(cfg, 0)
    ELSE IF frame.model = "A" THEN _anneal_temp_a(cfg, a_review_count + 1)
    ELSE cfg.temp_b

\* C22: the annealing schedule is applied at step 0 to the starter and at
\* steps 1, 2, ... to the successive model-A reviews: every Completer call of
\* the j-th model-A review is made at temperature anneal(j), every call of a
\* model-B review at temp_b.
C22_ScheduleApplied ==
    frame.step # "none" => \A i \in DOMAIN calls : calls[i].temperature = ScheduledTemp

\* A step in which a Completer call raises, and the exception raised.
CompleterRaises == Len(hist'.raised) = Len(hist.raised) + 1
RaisedError == hist'.raised[Len(hist'.raised)]

\* The reviewer's first attempt: the tool loop that was given response_format.
FirstAttempt == frame.step = "reviewer" /\ frame.response_format
SecondAttempt == frame.step = "reviewer" /\ ~frame.response_format

\* C23: a BadRequestError of a Completer call in the reviewer's first attempt
\* (the one made with response_format) makes the step run the tool loop once
\* more, from its start and without response_format, with nothing returned,
\* counted or noted; any other exception there, and every exception of the
\* second attempt or of the starter, leaves query() as that exception. No
\* call of the second attempt carries response_format, and its reply is parsed
\* as any other: a fenced accepting verdict is returned as accepted, a fenced
\* rejecting one adds its notes and counts the step.
C23_RetryOnce ==
    /\ [][CompleterRaises =>
             IF FirstAttempt /\ RaisedError = "BadRequestError"
             THEN /\ pc' = "call" /\ frame'.step = "reviewer" /\ frame'.model = frame.model
                  /\ ~frame'.response_format /\ frame'.iteration = 0
                  /\ calls' = <<>> /\ heap'[local_ref'] = heap.outer
                  /\ outcome' = outcome /\ state' = state
                  /\ iteration_count' = iteration_count
             ELSE /\ pc' = "idle" /\ outcome' = Raised(RaisedError)
                  /\ state' = state /\ iteration_count' = iteration_count]_vars
    /\ [](SecondAttempt => \A i \in DOMAIN calls : ~calls[i].response_format)
    /\ [][(ReviewStep /\ SecondAttempt) =>
             /\ frame.response.content = <<"'''json", J_ACCEPT, FENCE>> =>
                  outcome' = Returned("accepted", <<"final">>)
             /\ frame.response.content = <<FENCE, J_REJECT>> =>
                  /\ outcome'.kind # "raised"
                  /\ iteration_count' = iteration_count + 1
                  /\ state'.notes # <<>> /\ state'.notes[Len(state'.notes)] = "n2"]_vars

\* C23 happens: the first attempt was rejected, and the second attempt has
\* come back with a fenced verdict that is about to be parsed.
C23_Witness ==
    /\ ReviewStep /\ SecondAttempt
    /\ hist.raised = <<"BadRequestError">>
    /\ frame.response.content = <<"'''json", J_ACCEPT, FENCE>>
    /\ calls = <<CallRecord(FALSE, FALSE)>>

\* The step's final completion has come back from the tool loop without text:
\* None, empty or whitespace only.
BlankCompletion == pc = "loop_done" /\ strip(OrEmpty(frame.response.content)) = <<>>

\* C24: when the final completion of the starter or of a reviewer step has
\* empty or whitespace-only content, query raises in that very step, with no
\* further Completer call; the notes memory and iteration_count have not
\* moved since the step began and do not move (the failing step is not
\* counted and adds no notes).
C24_EmptyCompletion ==
    /\ [][BlankCompletion =>
             /\ pc' = "idle" /\ outcome' = Raised("AssertionError")
             /\ hist'.completions = hist.completions
             /\ state' = state /\ iteration_count' = iteration_count]_vars
    /\ [][(pc # "idle" /\ pc # "loop_done") =>
             /\ state' = state
             /\ iteration_count' = iteration_count]_vars

\* C24 happens: after a counted starter and a counted rejection, the third
\* step's final completion is the empty string.
C24_Witness ==
    /\ BlankCompletion
    /\ frame.response.content = <<>>
    /\ frame.step = "reviewer"
    /\ iteration_count = 2
    /\ state.notes # <<>>

\* C25: once close() has been called on a client, no new worker is spawned
\* and the client does not come back to Running.
C25_ClosedTerminal ==
    [][mcp.closed =>
          /\ \A w \in DOMAIN mcp.workers :
                mcp'.workers[w].pc = "loop" => mcp.workers[w].pc = "loop"
          /\ Running' => Running]_vars

\* C26: a worker that failed before it signalled 'started' (spawn,
\* initialize or tool listing) has its error raised by the connect() call that
\* started it, does not serve, and leaves the client without its session.
C26_FailureRaised ==
    \A w \in DOMAIN mcp.workers :
        mcp.workers[w].failed \in {"spawn", "initialize", "list_tools"} =>
            /\ (mcp.last.op = "connect" /\ mcp.last.worker = w /\ mcp.app.pc # "connect")
                   => mcp.last.kind = "raised"
            /\ mcp.workers[w].pc \notin {"serving", "closing"}
            /\ mcp.workers[w].pc = "exited" => mcp._session # w

\* C27: after close() has returned on a client that was Running, a call of
\* one of its executors returns "Error: MCP session is not connected.".
C27_NotConnectedAfterClose ==
    (mcp.after_close /\ mcp.last.op = "call") =>
        (mcp.last.kind = "returned" /\ mcp.last.value = NOT_CONNECTED)

\* C28: a call of an MCP executor returns a string and never raises.
C28_ExecutorNeverRaises ==
    mcp.last.op = "call" =>
        (mcp.last.kind = "returned"
         /\ mcp.last.value \in {NOT_CONNECTED, BAD_ARGUMENTS, TIMED_OUT, CALL_FAILED, TOOL_TEXT})

\* The client is Closed: no session, no worker on its way to 'started' and
\* none serving.
Closed == mcp._session = NoneRef /\ ~Starting /\ ~Running

\* The lifecycle states close() is called in: no connect() yet; the last
\* connect() raised and no other worker is alive; the client is Closed and
\* the operation before was a close().
NeverConnected == mcp._thread = NoneRef
ConnectFailed ==
    /\ mcp.last.op = "connect"
    /\ mcp.last.kind = "raised"
    /\ \A w \in DOMAIN mcp.workers : w # mcp.last.worker => mcp.workers[w].pc \in {"none", "exited"}
AlreadyClosed == mcp.last.op = "close" /\ Closed

\* The steps of close(): the one in which it is called, the one in which it
\* returns (the same one when there is no thread to join).
CloseCalled ==
    /\ mcp.app = Idle
    /\ mcp'.app.pc = "close" \/ (mcp'.app = Idle /\ mcp'.last # mcp.last /\ mcp'.last.op = "close")
CloseReturns ==
    /\ mcp'.app = Idle
    /\ mcp.app.pc = "close" \/ (mcp'.last # mcp.last /\ mcp'.last.op = "close")

\* C29: close() raises nothing; called on a client that never connected,
\* whose connect() failed or that is already closed it leaves the client
\* Closed; and a close() that follows a close() changes no field of the
\* client and no worker.
C29_CloseIdempotent ==
    /\ [](mcp.last.op = "close" => mcp.last.kind = "returned")
    /\ [][(CloseReturns /\ (NeverConnected \/ ConnectFailed \/ AlreadyClosed)) => Closed']_vars
    /\ [][(mcp.last.op = "close" /\ (CloseCalled \/ CloseReturns))
             => /\ mcp'.workers = mcp.workers
                /\ <<mcp'._tools, mcp'._session, mcp'._loop, mcp'._done, mcp'._thread>>
                       = <<mcp._tools, mcp._session, mcp._loop, mcp._done, mcp._thread>>]_vars

C29_Witness ==
    /\ mcp.last.op = "close"
    /\ mcp.last.kind = "returned"
    /\ mcp.last.before = "close"
    /\ Closed
    /\ \E w \in DOMAIN mcp.workers : mcp.workers[w].pc = "exited" /\ mcp.workers[w].failed # ""

\* The clients, in the order they were connected, that offer a tool of this name.
Offering(name) ==
    {c \in DOMAIN cli.mcp_clients :
        \E i \in DOMAIN cli.mcp_clients[c] : cli.mcp_clients[c][i] = name}

LastOffering(name) == CHOOSE c \in Offering(name) : \A other \in Offering(name) : other <= c

\* C30: the tool schemas and the executors put together for the controller
\* each hold exactly one entry for a name that connected clients offer, the
\* one of the last-connected client that offers it.
C30_LastConnectedWins ==
    cli.merged =>
        \A name \in ToolNames :
            Offering(name) # {} =>
                /\ Cardinality({i \in DOMAIN cli.mcp_tools : cli.mcp_tools[i].name = name}) = 1
                /\ \A i \in DOMAIN cli.mcp_tools :
                      cli.mcp_tools[i].name = name => cli.mcp_tools[i].client = LastOffering(name)
                /\ name \in DOMAIN cli.mcp_executors
                /\ cli.mcp_executors[name] = LastOffering(name)

\* ============================================================ snapshots
\* state.py: to_dict / from_dict on the notes memory s = state, with the list
\* objects kept apart so that two names for one list can be told from a copy.
list_at(ref) == IF ref = "self" THEN state.notes ELSE ckpt.lists[ref]

\* to_dict: `"notes": list(self.notes)` is a new list object.
to_dict_notes(ref) == "data"

\* Mutant of from_dict_notes: obj.notes = data["notes"], the snapshot's own list.
from_dict_notes_alias(ref) == ref

\* from_dict: `obj.notes = list(data["notes"])` is a new list object.
from_dict_notes(ref) == "obj"

\* The list object behind ref now holds notes.
store_list(ref, notes) ==
    IF ref = "self"
    THEN /\ state' = [state EXCEPT !.notes = notes]
         /\ ckpt' = [ckpt EXCEPT !.last = "obj.mutate"]
    ELSE /\ ckpt' = [ckpt EXCEPT !.lists[ref] = notes, !.last = "obj.mutate"]
         /\ UNCHANGED state

\* data = s.to_dict()
ToDict ==
    /\ pc = "idle"
    /\ ckpt.data = NoData
    /\ LET ref == to_dict_notes("self") IN
         ckpt' = [ckpt EXCEPT !.data = [max_size |-> state.max_size, notes |-> ref],
                              !.lists = IF ref = "self" THEN @
                                        ELSE [@ EXCEPT ![ref] = state.notes],
                              !.taken = state,
                              !.last = "to_dict"]
    /\ UNCHANGED <<mcp, cli, ctl_vars>>

\* obj = AutoDecayingState.from_dict(data)
FromDict ==
    /\ pc = "idle"
    /\ ckpt.data # NoData
    /\ LET data == [max_size |-> ckpt.data.max_size, notes |-> list_at(ckpt.data.notes)]
           ref == from_dict_notes(ckpt.data.notes) IN
         /\ from_dict(data).ok
         /\ ckpt' = [ckpt EXCEPT !.obj = [max_size |-> from_dict(data).obj.max_size,
                                          notes |-> ref],
                                 !.lists = IF ref = "obj"
                                           THEN [@ EXCEPT !.obj = from_dict(data).obj.notes]
                                           ELSE @,
                                 !.last = "from_dict"]
    /\ UNCHANGED <<mcp, cli, ctl_vars>>

\* The restored state as a value.
restored == [max_size |-> ckpt.obj.max_size, notes |-> list_at(ckpt.obj.notes)]

\* obj.add_notes(new_notes): del and extend work on the list object in place.
RestoredAddNotes(new_notes) ==
    /\ pc = "idle"
    /\ ckpt.obj # NoObj
    /\ evict_choices(restored, new_notes) # {}
    /\ \E evict_indices \in evict_choices(restored, new_notes) :
         store_list(ckpt.obj.notes, add_notes(restored, new_notes, evict_indices).notes)
    /\ UNCHANGED <<mcp, cli, cfg, completer, usage, iteration_count, pc, heap, local_ref,
                   current_answer, review_step, a_review_count, frame, calls, outcome, hist>>

\* obj.clear(): self.notes.clear() empties the list object in place.
RestoredClear ==
    /\ pc = "idle"
    /\ ckpt.obj # NoObj
    /\ store_list(ckpt.obj.notes, <<>>)
    /\ UNCHANGED <<mcp, cli, cfg, completer, usage, iteration_count, pc, heap, local_ref,
                   current_answer, review_step, a_review_count, frame, calls, outcome, hist>>

\* Batches given to s and to the restored state: up to the largest max_size.
SnapshotBatches == UNION {[1..n -> NoteAlphabet] : n \in 0..MaxStateSize}
RestoredBatches == UNION {[1..n -> {"c"}] : n \in 0..MaxStateSize}

SnapshotConfigs ==
    [max_state_size : 1..MaxStateSize,
     max_iterations : {NoneInt},
     tools : {"unset"},
     max_tool_iterations : {0}]

InitSnapshot ==
    /\ \E config \in SnapshotConfigs : Construct(config)
    /\ completer = SilentCompleter
    /\ ckpt = NewCheckpointStore
    /\ mcp = NewMCPClient
    /\ cli = NewCLI

NextSnapshot ==
    \/ \E new_notes \in SnapshotBatches : AddNotes(new_notes)
    \/ Clear
    \/ ToDict
    \/ FromDict
    \/ \E new_notes \in RestoredBatches : RestoredAddNotes(new_notes)
    \/ RestoredClear

SpecSnapshot == InitSnapshot /\ [][NextSnapshot]_vars

\* The snapshot as a value.
snapshot == [max_size |-> ckpt.data.max_size, notes |-> list_at(ckpt.data.notes)]

\* C31: from_dict(to_dict(s)) has the max_size and the notes, in order, that s
\* had when to_dict was called; the snapshot keeps them whatever is done to s
\* or to the restored state afterwards, and a change of the restored state
\* leaves s as it was.
C31_SnapshotRoundTrip ==
    /\ [](ckpt.data # NoData => snapshot = ckpt.taken)
    /\ [](ckpt.last = "from_dict" => restored = ckpt.taken)
    /\ [][ckpt'.last = "obj.mutate" /\ ckpt' # ckpt => state' = state]_vars

\* A non-empty s was snapshotted and restored, the restored state was changed
\* after that, and s is still what it was.
C31_Witness ==
    /\ ckpt.last = "obj.mutate"
    /\ ckpt.taken.notes # <<>>
    /\ restored.notes # ckpt.taken.notes
    /\ state = ckpt.taken

\* ============================================================ checkpoint file
\* checkpoint.py: save_checkpoint writes the file load_checkpoint reads.
\* The attributes save_checkpoint reads from the controller.
CheckpointAttributes ==
    {"state", "iteration_count", "model_a", "model_b", "max_state_size", "max_iterations",
     "temp_a", "temp_b", "top_p_a", "top_p_b", "top_k_a", "top_k_b",
     "reasoning_effort_a", "reasoning_effort_b"}

\* json.dump of the checkpoint dict: ints become numbers, None null, the
\* notes an array of strings (the config entries that are modelled).
json_number(n) == [type |-> "number", value |-> n]
json_optional(n) == IF n = NoneInt THEN [type |-> "null"] ELSE json_number(n)
json_strings(list) ==
    [type |-> "array",
     items |-> [i \in DOMAIN list |-> [type |-> "string", value |-> list[i]]]]

json_dump(checkpoint) ==
    [type |-> "object",
     state |-> [type |-> "object",
                max_size |-> json_number(checkpoint.state.max_size),
                notes |-> json_strings(checkpoint.state.notes)],
     iteration_count |-> json_number(checkpoint.iteration_count),
     config |-> [type |-> "object",
                 max_state_size |-> json_number(checkpoint.config.max_state_size),
                 max_iterations |-> json_optional(checkpoint.config.max_iterations)]]

\* json.load of the file: numbers become ints, arrays lists, strings str.
json_load(file) ==
    [state |-> [max_size |-> file.state.max_size.value,
                notes |-> [i \in DOMAIN file.state.notes.items |->
                              file.state.notes.items[i].value]],
     iteration_count |-> file.iteration_count.value,
     config |-> [max_state_size |-> file.config.max_state_size.value,
                 max_iterations |-> IF file.config.max_iterations.type = "null"
                                    THEN NoneInt
                                    ELSE file.config.max_iterations.value]]

\* state.to_dict() as a value
to_dict(st) == [max_size |-> st.max_size, notes |-> st.notes]

\* save_checkpoint(path): the dict is built first, and reading an attribute
\* the controller does not have raises AttributeError before the file is
\* opened; ckpt.taken and ckpt.count keep what was to be saved.
save_checkpoint ==
    /\ pc = "idle"
    /\ IF CheckpointAttributes \subseteq ckpt.attrs
       THEN /\ ckpt' = [ckpt EXCEPT
                          !.file = json_dump([state |-> to_dict(state),
                                              iteration_count |-> iteration_count,
                                              config |-> [max_state_size |-> cfg.max_state_size,
                                                          max_iterations |-> cfg.max_iterations]]),
                          !.taken = state, !.count = iteration_count,
                          !.last = "save_checkpoint"]
            /\ outcome' = NoOutcome
       ELSE /\ ckpt' = [ckpt EXCEPT !.taken = state, !.count = iteration_count,
                                    !.last = "save_checkpoint"]
            /\ outcome' = Raised("AttributeError")
    /\ UNCHANGED <<mcp, cli, cfg, state, iteration_count, usage, completer, pc, heap, local_ref,
                   current_answer, review_step, a_review_count, frame, calls, hist>>

\* load_checkpoint(path) on the path save_checkpoint was given: open raises
\* FileNotFoundError when nothing was written there.
load_saved ==
    /\ pc = "idle"
    /\ ckpt.last = "save_checkpoint"
    /\ ckpt' = [ckpt EXCEPT !.last = "load_checkpoint"]
    /\ IF ckpt.file = NoFile
       THEN /\ outcome' = Raised("FileNotFoundError")
            /\ UNCHANGED <<state, iteration_count>>
       ELSE LET checkpoint == json_load(ckpt.file) IN
              IF {"state", "iteration_count"} \subseteq DOMAIN checkpoint
                 /\ from_dict(checkpoint.state).ok
              THEN /\ state' = from_dict(checkpoint.state).obj
                   /\ iteration_count' = checkpoint.iteration_count
                   /\ outcome' = NoOutcome
              ELSE /\ outcome' = Raised("AssertionError")
                   /\ UNCHANGED <<state, iteration_count>>
    /\ UNCHANGED <<mcp, cli, cfg, usage, completer, pc, heap, local_ref,
                   current_answer, review_step, a_review_count, frame, calls, hist>>

\* A fresh controller takes the place of the one in use.
fresh_controller ==
    /\ pc = "idle"
    /\ state' = AutoDecayingState(cfg.max_state_size)
    /\ iteration_count' = 0
    /\ outcome' = NoOutcome
    /\ UNCHANGED <<ckpt, mcp, cli, cfg, completer, usage, pc, heap, local_ref, current_answer,
                   review_step, a_review_count, frame, calls, hist>>

CheckpointConfigs ==
    [max_state_size : 1..MaxStateSize,
     max_iterations : {NoneInt} \cup 1..MaxIterations,
     tools : {"none"},
     max_tool_iterations : {0}]

\* The controller as constructed, or with temp_a assigned by its owner.
InitCheckpoint ==
    /\ \E config \in CheckpointConfigs : Construct(config)
    /\ completer = SilentCompleter
    /\ \E attrs \in {InitAttributes, InitAttributes \cup {"temp_a"}} :
         ckpt = [NewCheckpointStore EXCEPT !.attrs = attrs]
    /\ mcp = NewMCPClient
    /\ cli = NewCLI

NextCheckpoint ==
    \/ \E checkpoint \in Checkpoints : load_checkpoint(checkpoint)
    \/ save_checkpoint
    \/ fresh_controller
    \/ load_saved

SpecCheckpoint == InitCheckpoint /\ [][NextCheckpoint]_vars

\* C32: save_checkpoint(path) followed by load_checkpoint(path), on the same
\* or on a fresh controller, succeeds and leaves the notes, max_size and
\* iteration_count that the controller had when it was saved.
SaveReturns == ckpt' # ckpt /\ ckpt'.last = "save_checkpoint"
LoadReturns == ckpt.last = "save_checkpoint" /\ ckpt'.last = "load_checkpoint"

C32_SaveThenLoad ==
    [][/\ SaveReturns => outcome'.kind # "raised" /\ ckpt'.file # NoFile
       /\ LoadReturns => /\ outcome'.kind # "raised"
                         /\ state' = ckpt.taken
                         /\ iteration_count' = ckpt.count]_vars

\* The same for a controller whose owner assigned temp_a before saving.
C32_OwnerAssignedTempA ==
    [][/\ "temp_a" \in ckpt.attrs /\ SaveReturns =>
             outcome'.kind # "raised" /\ ckpt'.file # NoFile
       /\ "temp_a" \in ckpt.attrs /\ LoadReturns =>
             /\ outcome'.kind # "raised"
             /\ state' = ckpt.taken
             /\ iteration_count' = ckpt.count]_vars

\* A controller with notes and a count was saved, replaced by a fresh one, and loaded.
C32_OwnerWitness ==
    /\ "temp_a" \in ckpt.attrs
    /\ ckpt.last = "load_checkpoint"
    /\ state.notes # <<>> /\ iteration_count > 0
    /\ state = ckpt.taken

\* ============================================================ over-full memories
\* state.py / checkpoint.py: from_dict checks the keys and max_size > 0 and
\* takes the notes as they are, so a checkpoint file can hold more notes than
\* max_size: here up to MaxOverfull more.
MaxOverfull == 2

OverfullCheckpoints ==
    {[state |-> [max_size |-> max_size, notes |-> notes], iteration_count |-> 0] :
        <<max_size, notes>> \in
            {d \in (1..MaxStateSize) \X UNION {[1..n -> {"x"}] :
                                                n \in 0..MaxStateSize + MaxOverfull} :
                Len(d[2]) <= d[1] + MaxOverfull}}

NextOverfull ==
    \/ \E checkpoint \in OverfullCheckpoints : load_checkpoint(checkpoint)
    \/ \E new_notes \in RestoredBatches : AddNotes(new_notes)
    \/ Clear

SpecOverfull == InitSnapshot /\ [][NextOverfull]_vars

\* C37: add_notes on a notes memory that holds more than max_size notes, with
\* any batch (the empty one too), raises nothing and leaves at most max_size
\* notes.
C37_OverfullAddNotes ==
    [][Len(state.notes) > state.max_size /\ (\E new_notes \in RestoredBatches : AddNotes(new_notes))
       => outcome'.kind # "raised" /\ Len(state'.notes) <= state'.max_size]_vars

\* A restored memory with notes beyond max_size was given the empty batch:
\* notes were evicted and the memory is exactly full.
C37_Witness ==
    /\ Len(hist.prev_notes) > state.max_size
    /\ hist.batch = <<>>
    /\ hist.evicted # {}
    /\ state.notes = del_indices(hist.prev_notes, hist.evicted)
    /\ Len(state.notes) = state.max_size
    /\ outcome = NoOutcome

\* ============================================================ tool rounds
\* A Completer call of the tool loop returned a completion with tool calls.
CompletionWithToolCalls ==
    /\ pc \in {"call", "deferred"}
    /\ Len(calls') = Len(calls) + 1
    /\ frame'.response.tool_calls # <<>>

\* The step appended the completion's assistant message, tool_calls included,
\* to the local context, and its calls are now to be dispatched.
AssistantAppended ==
    LET before == heap[local_ref]
        after == heap'[local_ref']
    IN /\ pc' = "dispatch"
       /\ Len(after) = Len(before) + 1
       /\ SubSeq(after, 1, Len(before)) = before
       /\ after[Len(after)].role = "assistant"
       /\ after[Len(after)].tool_calls = frame'.response.tool_calls
       /\ frame'.pending = frame'.response.tool_calls

\* While the calls of a completion are dispatched, and when the next Completer
\* call is due, the local context ends with the assistant message and one tool
\* message for each call dispatched so far, in the order of tool_calls, each
\* with its call's id and its executor's result; the calls not yet dispatched
\* are the rest of tool_calls, and none is left when the Completer is called.
ToolRoundRecorded ==
    (pc = "dispatch" \/ (pc = "call" /\ frame.iteration > 0)) =>
        LET tool_calls == frame.response.tool_calls
            done == Len(tool_calls) - Len(frame.pending)
            local_messages == heap[local_ref]
            base == Len(local_messages) - done
        IN /\ done >= 0 /\ base >= 1
           /\ local_messages[base].role = "assistant"
           /\ local_messages[base].tool_calls = tool_calls
           /\ \A i \in 1..done :
                 /\ local_messages[base + i].role = "tool"
                 /\ local_messages[base + i].tool_call_id = tool_calls[i].id
                 /\ local_messages[base + i].content = _dispatch_tool_call(tool_calls[i])
           /\ frame.pending = SubSeq(tool_calls, done + 1, Len(tool_calls))
           /\ pc = "call" => done = Len(tool_calls)

\* C33 as stated: every completion that carries tool calls is followed by its
\* assistant message and one tool message per call, in order, before the next
\* Completer call.
C33_ToolCallsDispatched ==
    /\ []ToolRoundRecorded
    /\ [][CompletionWithToolCalls => AssistantAppended]_vars

\* C33, for the completions of the iterations before the last allowed one:
\* the assistant message with its tool_calls is appended, then one tool
\* message per call in the order of tool_calls with that call's id, and the
\* next Completer call comes after all of them. A completion of the last
\* allowed iteration, or of the deferred structured call, is returned as it is:
\* nothing is appended and no executor runs.
C33_DispatchOrder ==
    /\ []ToolRoundRecorded
    /\ [][CompletionWithToolCalls /\ pc = "call" /\ ~is_last_allowed => AssistantAppended]_vars
    /\ [][CompletionWithToolCalls /\ (pc = "deferred" \/ is_last_allowed)
          => pc' = "loop_done" /\ heap' = heap]_vars

\* The three calls of one completion were dispatched and the next Completer
\* call is due.
C33_Witness ==
    /\ pc = "call"
    /\ frame.iteration > 0
    /\ Len(frame.response.tool_calls) = 3
    /\ Len(heap[local_ref]) >= 5

\* ============================================================ tool loop termination
\* Every Completer and executor call returns (or raises): a tool loop that can
\* take a step takes one.
\* The controllers are those with tools assigned, one note of memory and a
\* starter step followed by one review.
ToolLoopConfigs ==
    [max_state_size : {1},
     max_iterations : {2},
     tools : {"none", "some"},
     max_tool_iterations : 0..MaxToolIterations]

InitToolLoop ==
    /\ \E config \in ToolLoopConfigs : Construct(config)
    /\ completer = SilentCompleter
    /\ ckpt = NewCheckpointStore
    /\ mcp = NewMCPClient
    /\ cli = NewCLI

SpecToolLoop ==
    /\ InitToolLoop
    /\ [][Next]_vars
    /\ WF_vars(Call) /\ WF_vars(DeferredCall) /\ WF_vars(Dispatch)

\* _run_tool_loop has a Completer or an executor call to make.
ToolLoopRunning == pc \in {"call", "deferred", "dispatch"}

\* The call of the last allowed iteration returned a completion.
FinalCompletion ==
    /\ pc = "call"
    /\ is_last_allowed
    /\ Len(calls') = Len(calls) + 1
    /\ pc' # "idle"

\* C34: the tool loop terminates whatever the model replies; the call made
\* after max_tool_iterations tool rounds offers no tools and its completion is
\* returned as it is, tool calls included, with nothing appended to the local
\* context; no executor runs once the rounds are used up.
C34_ToolLoopTerminates ==
    /\ ToolLoopRunning ~> ~ToolLoopRunning
    /\ [](pc = "dispatch" => frame.iteration < cfg.max_tool_iterations)
    /\ [][FinalCompletion =>
             /\ ~calls'[Len(calls')].tools
             /\ pc' = "loop_done"
             /\ frame'.response \in Responses(VerdictContents \cup DraftContents)
             /\ heap' = heap]_vars

\* The model asked for tools in every reply: after max_tool_iterations rounds
\* the tool-less call's completion, which still carries tool calls, is what
\* the loop returns.
C34_Witness ==
    /\ pc = "loop_done"
    /\ cfg.max_tool_iterations >= 1
    /\ hist.tool_rounds = cfg.max_tool_iterations
    /\ frame.iteration = cfg.max_tool_iterations
    /\ frame.response.tool_calls # <<>>
    /\ ~calls[Len(calls)].tools

\* ============================================================ reviewer replies
\* _run_reviewer is about to read a reply that has text and is no verdict:
\* not JSON, a field missing, or a rejection with too few or too many notes.
NonConformingReply ==
    /\ pc = "loop_done"
    /\ frame.step = "reviewer"
    /\ HasText(frame.response.content)
    /\ parse_verdict(frame.response.content).error # ""

\* C35: every reviewer reply that does not conform to the contract ends the
\* query with the same kind of error (the ValueError of the parse failure),
\* which carries the raw content; no notes are added, the current answer is
\* not replaced and iteration_count is not incremented.
C35_SameErrorKind ==
    [][NonConformingReply /\ pc' = "idle" =>
          /\ outcome'.kind = "raised"
          /\ outcome'.error = "ValueError"
          /\ outcome'.value = frame.response.content
          /\ state' = state
          /\ current_answer' = current_answer
          /\ iteration_count' = iteration_count]_vars

\* The part of C35 about the controller's state, whatever the error is.
C35_NothingRecorded ==
    [][NonConformingReply /\ pc' = "idle" =>
          /\ outcome'.kind = "raised"
          /\ state' = state
          /\ current_answer' = current_answer
          /\ iteration_count' = iteration_count]_vars

\* ============================================================ no tools configured
\* C36: on a controller as the constructor leaves it (no tool attribute
\* assigned by its owner), every outer step is one Completer call, made without
\* tools and with response_format exactly when the step asked for it, and
\* query does not fail for want of the tool attributes.
C36_SingleCallWithoutTools ==
    cfg.tools = "unset" =>
        /\ ~(outcome.kind = "raised" /\ outcome.error = "AttributeError")
        /\ pc = "loop_done" =>
              /\ Len(calls) = 1
              /\ ~calls[1].tools
              /\ calls[1].response_format = frame.response_format

\* ============================================================ query after load_checkpoint
\* The notes the checkpoint files hold; no verdict carries one of them.
CheckpointNotes == UNION {{cp.state.notes[i] : i \in DOMAIN cp.state.notes} :
                             cp \in {c \in Checkpoints : "notes" \in DOMAIN c.state}}

\* What the step that enters query(messages) leaves on a controller just
\* constructed with the same configuration: every variable the later steps
\* of the query read.
FreshQueryEntry(messages) ==
    /\ state' = AutoDecayingState(cfg.max_state_size)
    /\ iteration_count' = 0
    /\ usage' = ZeroUsage
    /\ current_answer' = <<>>
    /\ review_step' = 0
    /\ a_review_count' = 0
    /\ calls' = <<>>
    /\ outcome' = NoOutcome
    /\ pc' = "call"
    /\ local_ref' = "local"
    /\ heap' = [user |-> messages,
                outer |-> <<Message("system", STARTER_PROMPT)>> \o messages,
                local |-> <<Message("system", STARTER_PROMPT)>> \o messages]
    /\ frame' = [step |-> "starter", model |-> "A", temperature |-> anneal_temp_a(cfg, 0),
                 response_format |-> FALSE, iteration |-> 0, pending |-> <<>>,
                 response |-> NoResponse]

\* C38: a query entered after load_checkpoint starts from the state a query
\* on a freshly constructed controller starts from, so with the same replies
\* and eviction choices it takes the same steps; while it runs, and when it
\* has ended, iteration_count is the number of its own completed steps and
\* neither the notes memory nor the prompt in use holds a note of the
\* checkpoint.
C38_LoadedStateIgnored ==
    /\ [][QueryEntry => FreshQueryEntry(hist'.messages)]_vars
    /\ [](hist.queries > 0 /\ pc # "idle" =>
             /\ iteration_count = Len(hist.steps) - 1
             /\ \A i \in DOMAIN state.notes : state.notes[i] \notin CheckpointNotes
             /\ \A i \in DOMAIN heap.outer[1].content :
                   heap.outer[1].content[i] \notin CheckpointNotes)

\* A query entered on a controller holding a loaded checkpoint's notes and
\* count ran to the iteration cap through a rejection: its count is the cap
\* and its notes are the rejection's.
C38_Witness ==
    /\ hist.queries > 0
    /\ hist.before.loaded
    /\ outcome.kind = "returned"
    /\ outcome.via = "cap"
    /\ iteration_count = cfg.max_iterations
    /\ iteration_count < 2 * StepBound
    /\ state.notes # <<>>
    /\ \A i \in DOMAIN state.notes : state.notes[i] \notin CheckpointNotes

\* ============================================================ connect() returning
\* connect() has returned without raising and nothing was called since.
ConnectReturned == mcp.last.op = "connect" /\ mcp.last.kind = "returned" /\ mcp.app = Idle

\* The worker of the last connect() serves with the server's tools listed.
ServingListedTools ==
    /\ mcp.workers[mcp.last.worker].pc = "serving"
    /\ mcp._session = mcp.last.worker
    /\ mcp._tools = ServerTools

\* C39: when connect() has returned without raising, the client is Running:
\* the handshake is done and get_tools() / get_executors() see the server's
\* tools, also when the handshake took longer than connect() waited.
C39_RunningOnReturn == ConnectReturned => ServingListedTools

\* The same for the calls of connect() whose wait ended by the started signal.
C39_RunningUnlessTimedOut == (ConnectReturned /\ ~mcp.last.timed_out) => ServingListedTools

\* ============================================================ connect() twice
\* The MCP client with room for one worker thread more than SpecMCP has, so
\* that connect() can be called while an earlier worker is alive.
InitReconnect ==
    /\ Construct(CHOOSE config \in NotesConfigs : config.max_state_size = 1)
    /\ completer = SilentCompleter
    /\ ckpt = NewCheckpointStore
    /\ mcp = [NewMCPClient EXCEPT !.workers = [w \in 1..MaxWorkers + 1 |-> NoWorker]]
    /\ cli = NewCLI

SpecReconnect == InitReconnect /\ [][NextMCP]_vars

\* The worker threads that are not over, and those among them that the
\* client can still tell to stop: close() sets the event self._done names, on
\* the loop self._loop names.
LiveWorkers == {w \in Spawned : mcp.workers[w].pc # "exited"}
Signallable ==
    {w \in LiveWorkers :
        \/ mcp.workers[w].pc \in {"closing", "except", "finally"}
        \/ mcp.workers[w].pc = "serving"
           /\ (mcp.workers[mcp.workers[w].event].done
               \/ (mcp._done = mcp.workers[w].event /\ mcp._loop # NoneRef
                   /\ mcp.workers[mcp._loop].loop = "running"))
        \/ mcp.workers[w].pc \in {"loop", "spawn", "initialize", "list_tools"}
           /\ mcp._thread = w}

\* C40: the client has at most one live worker thread at any time, every live
\* worker can still be told to stop through the client, and when close() has
\* returned after its join no worker of the client is serving.
C40_OneWorker ==
    /\ Cardinality(LiveWorkers) <= 1
    /\ LiveWorkers \subseteq Signallable
    /\ (mcp.last.op = "close" /\ mcp.app = Idle /\ mcp.last.kind = "returned"
        /\ "joined" \in DOMAIN mcp.last /\ mcp.last.joined)
          => \A w \in LiveWorkers : mcp.workers[w].pc # "serving"

\* connect() was called on a Running client and then close(): close() has
\* joined the second worker, and the first one still serves, waiting on an
\* event that nothing names any more.
C40_OrphanedWorker ==
    /\ mcp.last.op = "close" /\ mcp.app = Idle
    /\ "joined" \in DOMAIN mcp.last /\ mcp.last.joined
    /\ \E w \in LiveWorkers :
          /\ mcp.workers[w].pc = "serving"
          /\ mcp.workers[w].event = w
          /\ ~mcp.workers[w].done
          /\ mcp._done # w

====
